---- MODULE Spec2Model ----
(***************************************************************************)
(* heartbeat2: a watchdog that spawns one child, probes it with a          *)
(* heartbeat request, relays SIGQUIT/SIGTERM and restarts it after aborts. *)
(*                                                                         *)
(* The four actors of main_impl (Heartbeat::run, ProcessManager::          *)
(* run_process, SignalHandler::run, EventHandler::run) are futures of one  *)
(* task joined by tokio::try_join!.  Each action below is the code an      *)
(* actor runs between two suspension points (.await), so actions are       *)
(* atomic and interleave freely.  An actor that returns Err makes the      *)
(* join return at once, dropping the other three.                          *)
(***************************************************************************)
EXTENDS Integers, Sequences, FiniteSets, TLC

(* ---------------- bounds of the model ---------------- *)
\* supervised runs explored in one execution of main_impl
MaxRuns == 4
\* SIGQUIT/SIGTERM deliveries explored in one execution
MaxSignals == 1
\* largest value of the wall clock (seconds)
MaxClock == 2
\* largest MAX-RETRIES explored by the RestartManager harness
MaxM == 3
\* largest RETRY-INTERVAL explored by the RestartManager harness
MaxW == 2
\* add_process_abort calls explored by the RestartManager harness
MaxAborts == 4
\* kill_process / raise_signal calls per installed sender in the API harness
MaxCmdCalls == 2

(* ---------------- program constants ---------------- *)
EVENT_QUEUE_SIZE == 1

VARIABLES
    maxRetries,     \* config MAX-RETRIES
    retryInterval,  \* config RETRY-INTERVAL
    targetEndpoint, \* config TARGET-ENDPOINT: <<>> when absent, else <<value>>
    targetId,       \* config TARGET-ID: <<>> when absent, else <<value>>
    eventSenders,   \* the owners of a live Sender of the event queue
    mpc,            \* main_impl: "loop", "join", "decide", "done"; harnesses: "api", "hb",
                    \* "restart", "resolve", "parse"
    mainResult,     \* "none", "Ok", "Err", "panic"
    runs,           \* number of try_join! rounds started
    status,         \* ProcessManager.status
    agent,          \* ProcessManager.agent: "None" or "Some" (a oneshot sender)
    recvAction,     \* receiver of the sender last installed: "none", "open", "dropped"
    action,         \* value sitting in the command channel, <<>> when none
    ppc,            \* run_process: "idle", "select", "sendEvent", "killWait", "done"
    pmEvent,        \* event run_process is suspended sending, <<>> when none
    runResult,      \* value returned by run_process: "none", "Complete", "Abort"
    child,          \* OS child of the current run: "none", "running", "exitedOk", "exitedFail", "killed"
    childSignals,   \* OS signals the supervisor has sent to a child
    hstatus,        \* Heartbeat.status
    sendStop,       \* Heartbeat.send_stop: "None", "live" (receiver in select), "closed" (receiver dropped)
    stopSig,        \* a stop value sits in the stop channel
    hpc,            \* Heartbeat::run: "idle", "select", "beat", "inflight", "sendEvent", "done"
    replied,        \* a heartbeat reply has arrived in this run
    signalHandle,   \* SignalHandler.signal_handle: "None" or "Some"
    sigClosed,      \* the Signals stream of this run has been closed
    spc,            \* SignalHandler::run: "idle", "wait", "send", "done"
    sigPending,     \* event the listener is suspended sending, <<>> when none
    sigCount,       \* signals delivered so far
    queue,          \* the mpsc event queue
    rpc,            \* EventHandler::run: "idle", "recv", "done", "failed"
    processed,      \* events dispatched by the reducer in this run
    calls,          \* calls made by the reducer's last dispatch, in order
    dispatchErr,    \* result of the reducer's last dispatch
    queueAtEnd,     \* the queue at the moment the last dispatch ended
    childAtDispatch, \* state of the child at the reducer's last dispatch
    runLog,         \* for each completed join, the events its reducer dispatched
    lookup,         \* the last call of Heartbeat::app_endpoint and its result
    parsed,         \* keyword harness: the last source form parsed and atom compared
    selfExit,       \* the child of this run exited by itself
    pidSeen,        \* what child.id() returned in the RaiseSignal branch of this run
    history,        \* RestartManager.history
    clock,          \* last value read from the wall clock
    decisions,      \* results of should_process_restart, in order
    allAborts,      \* every timestamp ever pushed by add_process_abort
    lastCall,       \* API harness: last call, its outcome and where the callee was (at)
    cmdCalls,       \* API harness: kill_process/raise_signal calls since the sender was installed
    delivered       \* commands put into the command channel since the sender was installed

\* what is fixed once main_impl has built its components
cfgVars == <<maxRetries, retryInterval, targetEndpoint, targetId, eventSenders>>
mainVars == <<mpc, mainResult, runs>>
logVars == <<runLog, lookup, parsed>>
pmVars == <<status, agent, recvAction, action, ppc, pmEvent, runResult>>
childVars == <<child, childSignals, selfExit, pidSeen>>
hbVars == <<hstatus, sendStop, stopSig, hpc, replied>>
sigVars == <<signalHandle, sigClosed, spc, sigPending, sigCount>>
ehVars == <<rpc, processed, calls, dispatchErr, queueAtEnd, childAtDispatch>>
rsVars == <<history, clock, decisions, allAborts>>
apiVars == <<lastCall, cmdCalls, delivered>>
vars == <<cfgVars, mainVars, logVars, pmVars, childVars, hbVars, sigVars, ehVars, rsVars,
          apiVars, queue>>

(* ---------------- types ---------------- *)
Signal == {"Quit", "Term"}
Timeout == <<"Timeout">>
Aborted == <<"Aborted">>
Complete == <<"Complete">>
Signalled(k) == <<"Signalled", k>>
EventType == {Timeout, Aborted, Complete} \cup {Signalled(k) : k \in Signal}
Kill == <<"Kill">>
RaiseSignal(k) == <<"RaiseSignal", k>>

\* From<Signal> for nix::sys::signal::Signal
NixSignal(k) == IF k = "Quit" THEN "SIGQUIT" ELSE "SIGTERM"

(* ---------------- ProcessManager, Heartbeat and SignalHandler operations ----------------
   The synchronous methods the reducer calls.  Each takes and returns a record w of
   the cells it may touch; w.calls is the list of calls made so far and w.err the
   result of the last one. *)
World ==
    [status |-> status, agent |-> agent, recvAction |-> recvAction, action |-> action,
     sendStop |-> sendStop, stopSig |-> stopSig,
     signalHandle |-> signalHandle, sigClosed |-> sigClosed,
     delivered |-> delivered, calls |-> <<>>, err |-> "Ok"]

\* faulty variant: the sender is used without being taken out of the holder
take_and_send_keep(w, a) ==
    IF w.agent = "None"
    THEN [w EXCEPT !.err = "NoRunningProcess"]
    ELSE IF w.recvAction = "open"
         THEN [w EXCEPT !.action = a, !.delivered = w.delivered + 1, !.err = "Ok"]
         ELSE [w EXCEPT !.err = "NoRunningProcess"]

\* faulty variant: send succeeds although the receiver has been dropped
take_and_send_blind(w, a) ==
    IF w.agent = "None"
    THEN [w EXCEPT !.err = "NoRunningProcess"]
    ELSE [w EXCEPT !.agent = "None", !.action = a,
                   !.delivered = w.delivered + 1, !.err = "Ok"]

\* self.agent.borrow_mut().take().ok_or(NoRunningProcess)?.send(a).map_err(NoRunningProcess)?
take_and_send(w, a) ==
    IF w.agent = "None"
    THEN [w EXCEPT !.err = "NoRunningProcess"]
    ELSE IF w.recvAction = "open"
         THEN [w EXCEPT !.agent = "None", !.action = a,
                        !.delivered = w.delivered + 1, !.err = "Ok"]
         ELSE [w EXCEPT !.agent = "None", !.err = "NoRunningProcess"]

\* faulty variant: kill_process sets the status only after the command has been sent
kill_process_statusLast(w) ==
    LET r == take_and_send([w EXCEPT !.calls = Append(w.calls, <<"kill_process">>)], Kill)
    IN IF r.err = "Ok" THEN [r EXCEPT !.status = "Killed"] ELSE r

kill_process(w) ==
    take_and_send([w EXCEPT !.calls = Append(w.calls, <<"kill_process">>),
                            !.status = "Killed"], Kill)

raise_signal(w, k) ==
    take_and_send([w EXCEPT !.calls = Append(w.calls, <<"raise_signal", k>>),
                            !.status = "Terminated"], RaiseSignal(k))

\* faulty variant: set_killed leaves the status as it is
set_killed_forgets(w) ==
    [w EXCEPT !.calls = Append(w.calls, <<"set_killed">>), !.err = "Ok"]

set_killed(w) ==
    [w EXCEPT !.calls = Append(w.calls, <<"set_killed">>), !.status = "Killed", !.err = "Ok"]

set_terminated(w) ==
    [w EXCEPT !.calls = Append(w.calls, <<"set_terminated">>), !.status = "Terminated",
              !.err = "Ok"]

\* faulty variant: reset does not look at the status
pm_reset_any(w) ==
    [w EXCEPT !.calls = Append(w.calls, <<"pm_reset">>), !.status = "Ready", !.err = "Ok"]

\* ProcessManager::reset
pm_reset(w) ==
    IF w.status = "Killed"
    THEN [w EXCEPT !.calls = Append(w.calls, <<"pm_reset">>), !.status = "Ready", !.err = "Ok"]
    ELSE [w EXCEPT !.calls = Append(w.calls, <<"pm_reset">>), !.err = "IllegalState"]

is_terminated(s) == s = "Terminated"
\* faulty variant: the loop condition forgets the Killed status
is_killed_never(s) == FALSE

is_killed(s) == s = "Killed"

\* Heartbeat::stop: take the sender; sending fails when the receiver was dropped
stop(w) ==
    LET c == [w EXCEPT !.calls = Append(w.calls, <<"stop">>)] IN
    CASE w.sendStop = "None" -> [c EXCEPT !.err = "Ok"]
      [] w.sendStop = "live" -> [c EXCEPT !.sendStop = "None", !.stopSig = TRUE, !.err = "Ok"]
      [] OTHER -> [c EXCEPT !.sendStop = "None", !.err = "PeerChannelClosed"]

\* faulty variant: close reads the handle without taking it out of the holder
close_keepsHandle(w) ==
    LET c == [w EXCEPT !.calls = Append(w.calls, <<"close">>)] IN
    IF w.signalHandle = "None"
    THEN [c EXCEPT !.err = "panic"]
    ELSE [c EXCEPT !.sigClosed = TRUE, !.err = "Ok"]

\* SignalHandler::close: take the handle (expect) and close the stream
close(w) ==
    LET c == [w EXCEPT !.calls = Append(w.calls, <<"close">>)] IN
    IF w.signalHandle = "None"
    THEN [c EXCEPT !.err = "panic"]
    ELSE [c EXCEPT !.signalHandle = "None", !.sigClosed = TRUE, !.err = "Ok"]

(* ---------------- EventHandler dispatch ---------------- *)
\* the ? operator: the next call of the body is made only after Ok
ThenStop(w) == IF w.err = "Ok" THEN stop(w) ELSE w
ThenClose(w) == IF w.err = "Ok" THEN close(w) ELSE w

\* faulty variant: Timeout also stops the heartbeat, like the other three events
consume_timeout_event_stops(w) == ThenClose(ThenStop(kill_process(w)))

consume_timeout_event(w) == ThenClose(kill_process(w))

consume_aborted_event(w) == ThenClose(ThenStop(set_killed(w)))

consume_complete_event(w) == ThenClose(ThenStop(set_terminated(w)))

consume_signaled_event(w, k) == ThenClose(ThenStop(raise_signal(w, k)))

\* the match of EventHandler::run
Dispatch(ev, w) ==
    CASE ev = Timeout -> consume_timeout_event(w)
      [] ev = Aborted -> consume_aborted_event(w)
      [] ev = Complete -> consume_complete_event(w)
      [] OTHER -> consume_signaled_event(w, ev[2])

(* ---------------- RestartManager ---------------- *)
\* faulty variant: the newest entries are dropped instead of the oldest
RECURSIVE prune_loop_newest(_, _)
prune_loop_newest(h, m) ==
    IF Len(h) >= m
    THEN IF h = <<>> THEN [history |-> h, res |-> "panic"]
         ELSE prune_loop_newest(SubSeq(h, 1, Len(h) - 1), m)
    ELSE [history |-> h, res |-> "Ok"]

\* faulty variant: the loop tests history.len() > max_retries
RECURSIVE prune_loop_gt(_, _)
prune_loop_gt(h, m) ==
    IF Len(h) > m
    THEN prune_loop_gt(Tail(h), m)
    ELSE [history |-> h, res |-> "Ok"]

\* RestartManager::prune: while history.len() >= max_retries { history.remove(0) };
\* Vec::remove panics on an empty vector; a negative MAX-RETRIES fails try_into
RECURSIVE prune_loop(_, _)
prune_loop(h, m) ==
    IF Len(h) >= m
    THEN IF h = <<>> THEN [history |-> h, res |-> "panic"] ELSE prune_loop(Tail(h), m)
    ELSE [history |-> h, res |-> "Ok"]

\* faulty variant: MAX-RETRIES is cast to usize, a negative value becomes a huge bound
prune_cast(h, m) == IF m < 0 THEN [history |-> h, res |-> "Ok"] ELSE prune_loop(h, m)

prune(h, m) == IF m < 0 THEN [history |-> h, res |-> "Err"] ELSE prune_loop(h, m)

add_process_abort(h, m, now) ==
    LET p == prune(h, m) IN
    IF p.res = "Ok" THEN [history |-> Append(p.history, now), res |-> "Ok"] ELSE p

\* history.iter().filter(|item| item >= now - retry_interval).count() >= max_retries
too_many_retries(h, m, w, now) ==
    Cardinality({i \in 1..Len(h) : h[i] >= now - w}) >= m

should_process_restart(h, m, w, now) == ~too_many_retries(h, m, w, now)

(* ---------------- strings, keywords and message atoms ----------------
   A string is a sequence of one-character strings, so that case conversion and the
   leading ':' are computed and not assumed. *)
LowerCase == <<"c", "d", "e", "g", "i", "m", "n", "o", "p", "s", "t", "x", "y", "z">>
UpperCase == <<"C", "D", "E", "G", "I", "M", "N", "O", "P", "S", "T", "X", "Y", "Z">>

char_to_uppercase(c) ==
    IF \E i \in 1..Len(LowerCase) : LowerCase[i] = c
    THEN UpperCase[CHOOSE i \in 1..Len(LowerCase) : LowerCase[i] = c]
    ELSE c

\* str::to_uppercase
to_uppercase(str) == [i \in 1..Len(str) |-> char_to_uppercase(str[i])]

\* str::strip_prefix(':'): <<rest>> when the string starts with ':', else <<>>
strip_prefix(str) == IF str # <<>> /\ str[1] = ":" THEN <<Tail(str)>> ELSE <<>>

\* kw![ident]: Keyword::from(stringify!(ident).to_uppercase())
kw(ident) == to_uppercase(ident)

\* Keyword::from_sexp on a string atom (configuration indicators)
Keyword_from_sexp(str) ==
    IF strip_prefix(str) # <<>>
    THEN [tag |-> "Keyword", text |-> to_uppercase(strip_prefix(str)[1])]
    ELSE [tag |-> "TypeError", text |-> <<"k", "e", "y", "w", "o", "r", "d">>]

\* Expression::from_atom on a string atom (configuration values)
Expression_from_atom(str) ==
    IF strip_prefix(str) # <<>>
    THEN [tag |-> "Keyword", text |-> to_uppercase(strip_prefix(str)[1])]
    ELSE [tag |-> "String", text |-> str]

\* TryFrom<tmq::Message> for Message: ':name' becomes Keyword::new(name), the name as
\* received; any other text becomes a String
Message_try_from(str) ==
    IF strip_prefix(str) # <<>>
    THEN [tag |-> "Keyword", text |-> strip_prefix(str)[1]]
    ELSE [tag |-> "String", text |-> str]

\* Message::as_str
as_str(m) == m.text

\* PartialEq<Keyword> for Message: String(s) => s == rhs.name(); Keyword(k) => k == rhs
Message_eq(m, name) ==
    IF m.tag = "String" THEN m.text = name ELSE m.text = name

endpoint == <<"e", "n", "d", "p", "o", "i", "n", "t">>
missing == <<"m", "i", "s", "s", "i", "n", "g">>
TARGET_ID == <<"T", "A", "R", "G", "E", "T", "-", "I", "D">>

\* SocketReceiver::recv_multipart: nothing received within the socket's timeout
NoReply == <<>>
\* Sup::sget: recv_multipart().await? returns Err(RecvError::Timeout) when no reply came
\* in time; else the classification of the reply (of at least one atom); multipart[1] of
\* a one-atom reply is an index out of bounds
sget(id, reply) ==
    LET multipart == [i \in 1..Len(reply) |-> Message_try_from(reply[i])] IN
    IF reply = NoReply
    THEN [tag |-> "RecvTimeout", text |-> <<>>]
    ELSE
    IF Message_eq(multipart[1], kw(endpoint))
    THEN IF Len(multipart) < 2
         THEN [tag |-> "panic", text |-> <<>>]
         ELSE [tag |-> "Ok", text |-> as_str(multipart[2])]
    ELSE IF Message_eq(multipart[1], kw(missing))
         THEN IF Len(multipart) < 2
              THEN [tag |-> "panic", text |-> <<>>]
              ELSE IF Message_eq(multipart[2], kw(endpoint))
                   THEN [tag |-> "MappingMissing", text |-> id]
                   ELSE [tag |-> "UnknownResponse", text |-> as_str(multipart[1])]
         ELSE [tag |-> "UnknownResponse", text |-> as_str(multipart[1])]

\* requires_sup: !section(HEARTBEAT).has_key(TARGET_ENDPOINT)
requires_sup(te) == te = <<>>

\* faulty variant: the resolver is asked even when TARGET-ENDPOINT is configured
app_endpoint_always_asks(te, tid, reply) ==
    IF tid = <<>>
    THEN [invoked |-> FALSE, reply |-> <<>>,
          res |-> [tag |-> "MissingKey", text |-> TARGET_ID]]
    ELSE IF tid[1].tag # "Keyword"
         THEN [invoked |-> FALSE, reply |-> <<>>,
               res |-> [tag |-> "TypeError", text |-> <<"k", "e", "y", "w", "o", "r", "d">>]]
         ELSE [invoked |-> TRUE, reply |-> reply, res |-> sget(tid[1].text, reply)]

\* Heartbeat::app_endpoint: TARGET-ENDPOINT when the section has the key (its value must
\* be a string), else sup.sget(TARGET-ID); reply is what the resolver answers if asked
app_endpoint(te, tid, reply) ==
    IF te # <<>>
    THEN IF te[1].tag = "String"
         THEN [invoked |-> FALSE, reply |-> <<>>, res |-> [tag |-> "Ok", text |-> te[1].text]]
         ELSE [invoked |-> FALSE, reply |-> <<>>,
               res |-> [tag |-> "TypeError", text |-> <<"s", "t", "r", "i", "n", "g">>]]
    ELSE IF tid = <<>>
         THEN [invoked |-> FALSE, reply |-> <<>>,
               res |-> [tag |-> "MissingKey", text |-> TARGET_ID]]
         ELSE IF tid[1].tag # "Keyword"
              THEN [invoked |-> FALSE, reply |-> <<>>,
                    res |-> [tag |-> "TypeError",
                             text |-> <<"k", "e", "y", "w", "o", "r", "d">>]]
              ELSE [invoked |-> TRUE, reply |-> reply, res |-> sget(tid[1].text, reply)]

NoLookup == [invoked |-> FALSE, reply |-> <<>>, res |-> [tag |-> "none", text |-> <<>>]]
NoParse == [src |-> <<>>, indicator |-> [tag |-> "none", text |-> <<>>],
            value |-> [tag |-> "none", text |-> <<>>], atom |-> <<>>, eq |-> FALSE]

\* configuration values used by main_impl and the API harnesses
TcpEndpoint == <<"t", "c", "p", ":", "/", "/", "x">>
AppId == <<":", "x", "y", "Z">>

(* ---------------- helpers of the actions ---------------- *)
Room == Len(queue) < EVENT_QUEUE_SIZE

\* the cells a World record carries, written back
ApplyWorld(w) ==
    /\ status' = w.status
    /\ agent' = w.agent
    /\ recvAction' = w.recvAction
    /\ action' = w.action
    /\ sendStop' = w.sendStop
    /\ stopSig' = w.stopSig
    /\ signalHandle' = w.signalHandle
    /\ sigClosed' = w.sigClosed
    /\ delivered' = w.delivered

\* faulty variant: the error of the join is dropped and the loop goes on
MainFail_swallowed(res) ==
    /\ mpc' = mpc
    /\ mainResult' = mainResult
    /\ runs' = runs

\* try_join! returns the first Err (or the panic unwinds main)
MainFail(res) ==
    /\ mpc' = "done"
    /\ mainResult' = res
    /\ runs' = runs

\* MAX-RETRIES / RETRY-INTERVAL pairs main_impl is explored with
RetryConfigs == {<<3, 60>>, <<2, 1>>, <<1, 0>>, <<-1, 1>>}

\* the heartbeat sections main_impl is run with: each retry configuration with a
\* TARGET-ENDPOINT, and one without it (the endpoint is then resolved on every tick)
Configs ==
    {<<c[1], c[2], <<Expression_from_atom(TcpEndpoint)>>>> : c \in RetryConfigs}
    \cup {<<1, 0, <<>>>>}

\* channel(EVENT_QUEUE_SIZE): main_impl keeps event_sender and gives a clone to the
\* Heartbeat, the SignalHandler and the ProcessManager, which it holds in Rc's
EventSenderOwners == {"main_impl", "heartbeat", "signal_handler", "process_manager"}

(* ---------------- main_impl ---------------- *)
\* the state after the constructors of main_impl (lines 70-93) have run
Constructed ==
    /\ mainResult = "none" /\ runs = 0
    /\ status = "Ready" /\ agent = "None" /\ recvAction = "none" /\ action = <<>>
    /\ ppc = "idle" /\ pmEvent = <<>> /\ runResult = "none"
    /\ child = "none" /\ childSignals = {} /\ selfExit = FALSE /\ pidSeen = "unasked"
    /\ hstatus = "Ready" /\ sendStop = "None" /\ stopSig = FALSE /\ hpc = "idle"
    /\ replied = FALSE
    /\ signalHandle = "None" /\ sigClosed = FALSE /\ spc = "idle" /\ sigPending = <<>>
    /\ sigCount = 0
    /\ queue = <<>>
    /\ rpc = "idle" /\ processed = <<>> /\ calls = <<>> /\ dispatchErr = "none"
    /\ queueAtEnd = <<>> /\ childAtDispatch = "none" /\ runLog = <<>>
    /\ lookup = NoLookup /\ parsed = NoParse
    /\ eventSenders = EventSenderOwners
    /\ history = <<>> /\ clock = 0 /\ decisions = <<>> /\ allAborts = <<>>
    /\ lastCall = [op |-> "none", res |-> "none", nth |-> 0, sent |-> FALSE, at |-> "none"]
    /\ cmdCalls = 0 /\ delivered = 0

Init ==
    /\ \E c \in Configs :
         maxRetries = c[1] /\ retryInterval = c[2] /\ targetEndpoint = c[3]
    /\ targetId = <<Expression_from_atom(AppId)>>
    /\ mpc = "loop"
    /\ Constructed

\* the first poll of the four futures of try_join!, each up to its first .await:
\* Heartbeat::run -> timer_loop's select; run_process -> spawn, select;
\* SignalHandler::run -> signals.next(); EventHandler::run -> recv()
StartRun ==
    /\ mpc = "loop" /\ runs < MaxRuns
    /\ runs' = runs + 1
    /\ IF hstatus # "Ready" \/ status # "Ready"
       THEN /\ mpc' = "done" /\ mainResult' = "Err"
            /\ UNCHANGED <<pmVars, childVars, hbVars, sigVars, ehVars, delivered, cmdCalls>>
       ELSE /\ mpc' = "join" /\ mainResult' = mainResult
            /\ hpc' = "select" /\ sendStop' = "live" /\ stopSig' = FALSE
            /\ replied' = FALSE /\ hstatus' = hstatus
            /\ status' = "Running" /\ child' = "running" /\ selfExit' = FALSE
            /\ pidSeen' = "unasked"
            /\ agent' = "Some" /\ recvAction' = "open" /\ action' = <<>>
            /\ delivered' = 0 /\ cmdCalls' = 0
            /\ ppc' = "select" /\ pmEvent' = <<>> /\ runResult' = "none"
            /\ signalHandle' = "Some" /\ sigClosed' = FALSE /\ spc' = "wait"
            /\ sigPending' = <<>> /\ sigCount' = sigCount
            /\ rpc' = "recv" /\ processed' = <<>> /\ calls' = <<>>
            /\ dispatchErr' = "none" /\ queueAtEnd' = queueAtEnd
            /\ childAtDispatch' = "none"
            /\ childSignals' = childSignals
    /\ UNCHANGED <<cfgVars, logVars, rsVars, lastCall, queue>>

\* Command::spawn() fails: run_process returns Err with the status already Running
SpawnFails ==
    /\ mpc = "loop" /\ runs < MaxRuns
    /\ hstatus = "Ready" /\ status = "Ready"
    /\ runs' = runs + 1
    /\ mpc' = "done" /\ mainResult' = "Err"
    /\ hpc' = "select" /\ sendStop' = "live" /\ stopSig' = FALSE
    /\ status' = "Running"
    /\ UNCHANGED <<cfgVars, logVars, agent, recvAction, action, ppc, pmEvent, runResult, childVars,
                   hstatus, replied, sigVars, ehVars, rsVars, apiVars, queue>>

(* ---------------- Heartbeat::timer_loop ---------------- *)
\* Heartbeat::run is being awaited, by main_impl's join or by the API harness
HbActive == mpc \in {"join", "hb"}

\* the target answers heartbeat requests: the child of main_impl while it runs; in the
\* API harness a target that may or may not answer
TargetUp == IF mpc = "hb" THEN TRUE ELSE child = "running"

\* select!: sleep(interval) elapsed; the stop receiver is dropped with the select
HbWake ==
    /\ HbActive /\ hpc = "select"
    /\ hpc' = "beat"
    /\ sendStop' = IF sendStop = "live" THEN "closed" ELSE sendStop
    /\ stopSig' = FALSE
    /\ UNCHANGED <<cfgVars, logVars, mainVars, pmVars, childVars, hstatus, replied, sigVars, ehVars,
                   rsVars, apiVars, queue>>

\* select!: recv_stop resolved -> break; timer_loop returns Ok
HbStopped ==
    /\ HbActive /\ hpc = "select" /\ stopSig
    /\ hpc' = "done"
    /\ stopSig' = FALSE
    /\ UNCHANGED <<cfgVars, logVars, mainVars, pmVars, childVars, hstatus, sendStop, replied, sigVars,
                   ehVars, rsVars, apiVars, queue>>

\* what the resolver may answer to [GET, id] in a supervised run
ResolverReplies == {<<kw(endpoint), TcpEndpoint>>, <<kw(missing), kw(endpoint)>>, NoReply}

\* faulty variant: beat goes on to connect although app_endpoint returned an error
HbSend_ignoresError ==
    /\ HbActive /\ hpc = "beat"
    /\ \E reply \in ResolverReplies :
         lookup' = app_endpoint(targetEndpoint, targetId, reply)
    /\ hpc' = "inflight" /\ hstatus' = "Req"
    /\ UNCHANGED <<cfgVars, runLog, parsed, mainVars, pmVars, childVars, sendStop, stopSig,
                   replied, sigVars, ehVars, rsVars, apiVars, queue>>

\* faulty variant: a receive timeout of the resolver is taken for a heartbeat timeout
HbSend_timeoutEitherWay ==
    /\ HbActive /\ hpc = "beat"
    /\ \E reply \in ResolverReplies :
         LET r == app_endpoint(targetEndpoint, targetId, reply) IN
         /\ lookup' = r
         /\ IF r.res.tag = "Ok"
            THEN /\ hpc' = "inflight" /\ hstatus' = "Req"
                 /\ UNCHANGED mainVars
            ELSE IF r.res.tag = "RecvTimeout"
                 THEN /\ hpc' = "sendEvent" /\ hstatus' = "Timeout"
                      /\ UNCHANGED mainVars
                 ELSE /\ hpc' = "failed" /\ hstatus' = hstatus
                      /\ MainFail("Err")
    /\ UNCHANGED <<cfgVars, runLog, parsed, pmVars, childVars, sendStop, stopSig, replied,
                   sigVars, ehVars, rsVars, apiVars, queue>>

\* beat: app_endpoint()?, then connect and send_keyword(HEARTBEAT), set_status(Req).
\* An error of app_endpoint is returned by beat, timer_func, timer_loop and run, and
\* fails the join.
HbSend ==
    /\ HbActive /\ hpc = "beat"
    /\ \E reply \in ResolverReplies :
         LET r == app_endpoint(targetEndpoint, targetId, reply) IN
         /\ lookup' = r
         /\ IF r.res.tag = "Ok"
            THEN /\ hpc' = "inflight" /\ hstatus' = "Req"
                 /\ UNCHANGED mainVars
            ELSE /\ hpc' = "failed" /\ hstatus' = hstatus
                 /\ MainFail("Err")
    /\ UNCHANGED <<cfgVars, runLog, parsed, pmVars, childVars, sendStop, stopSig, replied,
                   sigVars, ehVars, rsVars, apiVars, queue>>

\* faulty variant: a reply does not restore the status Ready
HbReply_keepsReq ==
    /\ HbActive /\ hpc = "inflight" /\ TargetUp
    /\ hstatus' = hstatus
    /\ replied' = TRUE
    /\ sendStop' = "live" /\ stopSig' = FALSE
    /\ hpc' = "select"
    /\ UNCHANGED <<cfgVars, logVars, mainVars, pmVars, childVars, sigVars, ehVars, rsVars, apiVars,
                   queue>>

\* recv_string -> Ok: status Ready, Continue; next iteration installs a fresh stop channel
HbReply ==
    /\ HbActive /\ hpc = "inflight" /\ TargetUp
    /\ hstatus' = "Ready"
    /\ replied' = TRUE
    /\ sendStop' = "live" /\ stopSig' = FALSE
    /\ hpc' = "select"
    /\ UNCHANGED <<cfgVars, logVars, mainVars, pmVars, childVars, sigVars, ehVars, rsVars, apiVars,
                   queue>>

\* faulty variant: the deadline sets the status and ends the loop without an event
HbTimeout_quiet ==
    /\ HbActive /\ hpc = "inflight"
    /\ hstatus' = "Timeout"
    /\ hpc' = "done"
    /\ UNCHANGED <<cfgVars, logVars, mainVars, pmVars, childVars, sendStop, stopSig, replied, sigVars,
                   ehVars, rsVars, apiVars, queue>>

\* recv_string -> Err(Timeout): status Timeout, then send_event.send(Timeout).await
HbTimeout ==
    /\ HbActive /\ hpc = "inflight"
    /\ hstatus' = "Timeout"
    /\ hpc' = "sendEvent"
    /\ UNCHANGED <<cfgVars, logVars, mainVars, pmVars, childVars, sendStop, stopSig, replied, sigVars,
                   ehVars, rsVars, apiVars, queue>>

\* faulty variant: after the Timeout event timer_func returns Continue
HbEmit_continues ==
    /\ HbActive /\ hpc = "sendEvent" /\ Room
    /\ queue' = Append(queue, Timeout)
    /\ hpc' = "select" /\ sendStop' = "live" /\ stopSig' = FALSE
    /\ UNCHANGED <<cfgVars, logVars, mainVars, pmVars, childVars, hstatus, replied,
                   sigVars, ehVars, rsVars, apiVars>>

\* the send of Timeout gets its permit: the event is queued, Break, timer_loop returns Ok
HbEmit ==
    /\ HbActive /\ hpc = "sendEvent" /\ Room
    /\ queue' = Append(queue, Timeout)
    /\ hpc' = "done"
    /\ UNCHANGED <<cfgVars, logVars, mainVars, pmVars, childVars, hstatus, sendStop, stopSig, replied,
                   sigVars, ehVars, rsVars, apiVars>>

\* connect / send / recv fail with another I/O error: beat returns Err, the join fails
HbIoError ==
    /\ HbActive /\ hpc \in {"beat", "inflight"}
    /\ hpc' = "failed"
    /\ MainFail("Err")
    /\ UNCHANGED <<cfgVars, logVars, pmVars, childVars, hstatus, sendStop, stopSig, replied, sigVars,
                   ehVars, rsVars, apiVars, queue>>

(* ---------------- the child process ---------------- *)
\* run_process is being awaited, by main_impl's join or by the API harness
Active == mpc \in {"join", "api"}

\* the child exits by itself, with success or failure
ChildExit(ok) ==
    /\ Active /\ child = "running" /\ ppc \in {"select", "done"}
    /\ child' = IF ok THEN "exitedOk" ELSE "exitedFail"
    /\ selfExit' = TRUE
    /\ UNCHANGED <<cfgVars, logVars, mainVars, pmVars, childSignals, pidSeen, hbVars, sigVars,
                   ehVars, rsVars,
                   apiVars, queue>>

\* the child dies of the SIGKILL sent by start_kill
ChildKilled ==
    /\ Active /\ child = "running" /\ ppc = "killWait"
    /\ child' = "killed"
    /\ UNCHANGED <<cfgVars, logVars, mainVars, pmVars, childSignals, selfExit, pidSeen, hbVars,
                   sigVars, ehVars,
                   rsVars, apiVars, queue>>

(* ---------------- ProcessManager::run_process ---------------- *)
\* raise_process_event_complete / raise_process_event_abort and the value returned
ExitEvent == IF child = "exitedOk" THEN Complete ELSE Aborted
ResultOf(ev) == IF ev = Complete THEN "Complete" ELSE "Abort"

\* faulty variant: the exit branch returns its result without raising the event
PmExit_silent ==
    /\ Active /\ ppc = "select" /\ child \in {"exitedOk", "exitedFail"}
    /\ recvAction' = "dropped"
    /\ action' = <<>>
    /\ ppc' = "done" /\ runResult' = ResultOf(ExitEvent) /\ pmEvent' = pmEvent
    /\ UNCHANGED <<cfgVars, logVars, mainVars, status, agent, childVars, hbVars, sigVars,
                   ehVars, rsVars, apiVars, queue>>

\* select!: child.wait() resolved; the command receiver is dropped with the select;
\* then event_queue.send(Complete / Aborted).await
PmExit ==
    /\ Active /\ ppc = "select" /\ child \in {"exitedOk", "exitedFail"}
    /\ recvAction' = "dropped"
    /\ action' = <<>>
    /\ ppc' = "sendEvent" /\ pmEvent' = ExitEvent
    /\ UNCHANGED <<cfgVars, logVars, mainVars, status, agent, runResult, childVars, hbVars, sigVars,
                   ehVars, rsVars, apiVars, queue>>

\* the send of Complete / Aborted gets its permit: the event is queued and
\* run_process returns Ok(Complete) / Ok(Abort)
PmEmit ==
    /\ Active /\ ppc = "sendEvent" /\ Room
    /\ queue' = Append(queue, pmEvent)
    /\ ppc' = "done" /\ pmEvent' = <<>> /\ runResult' = ResultOf(pmEvent)
    /\ UNCHANGED <<cfgVars, logVars, mainVars, status, agent, recvAction, action, childVars, hbVars,
                   sigVars, ehVars, rsVars, apiVars>>

\* child.id() in the RaiseSignal branch: Some while the child runs; None once the
\* process library has reaped the child.  Whether an exited child still reports its PID
\* at this point is decided by the library, so both outcomes are kept.
child_id == IF child = "running" THEN {"Some"} ELSE {"Some", "None"}

\* faulty variant: the RaiseSignal branch signals even when child.id() is None
PmCommand_signalsAnyway ==
    /\ Active /\ ppc = "select" /\ action # <<>>
    /\ recvAction' = "dropped"
    /\ action' = <<>>
    /\ IF action = Kill
       THEN /\ childSignals' = childSignals \cup {"SIGKILL"}
            /\ ppc' = "killWait" /\ runResult' = runResult /\ pidSeen' = pidSeen
       ELSE /\ \E id \in child_id : pidSeen' = id
            /\ childSignals' = childSignals \cup {NixSignal(action[2])}
            /\ ppc' = "done" /\ runResult' = "Complete"
    /\ UNCHANGED <<cfgVars, logVars, mainVars, status, agent, pmEvent, child, selfExit, hbVars,
                   sigVars, ehVars, rsVars, apiVars, queue>>

\* select!: recv_action resolved.  RaiseSignal: nix kill when child.id() is Some, a
\* warning when it is None, Ok(Complete) either way.  Kill: start_kill and await the
\* child.
PmCommand ==
    /\ Active /\ ppc = "select" /\ action # <<>>
    /\ recvAction' = "dropped"
    /\ action' = <<>>
    /\ IF action = Kill
       THEN /\ childSignals' = childSignals \cup {"SIGKILL"}
            /\ ppc' = "killWait" /\ runResult' = runResult /\ pidSeen' = pidSeen
       ELSE /\ \E id \in child_id :
                 /\ pidSeen' = id
                 /\ childSignals' = IF id = "Some"
                                    THEN childSignals \cup {NixSignal(action[2])}
                                    ELSE childSignals
            /\ ppc' = "done" /\ runResult' = "Complete"
    /\ UNCHANGED <<cfgVars, logVars, mainVars, status, agent, pmEvent, child, selfExit, hbVars,
                   sigVars, ehVars, rsVars, apiVars, queue>>

\* faulty variant: the Kill branch raises the Aborted event before returning
PmKillDone_emits ==
    /\ Active /\ ppc = "killWait" /\ child # "running"
    /\ ppc' = "sendEvent" /\ pmEvent' = Aborted
    /\ UNCHANGED <<cfgVars, logVars, mainVars, status, agent, recvAction, action, runResult,
                   childVars, hbVars, sigVars, ehVars, rsVars, apiVars, queue>>

\* faulty variant: the Kill branch returns Ok(Complete)
PmKillDone_complete ==
    /\ Active /\ ppc = "killWait" /\ child # "running"
    /\ ppc' = "done" /\ runResult' = "Complete"
    /\ UNCHANGED <<cfgVars, logVars, mainVars, status, agent, recvAction, action, pmEvent,
                   childVars, hbVars, sigVars, ehVars, rsVars, apiVars, queue>>

\* faulty variant: the Kill branch returns Ok(Abort) without awaiting the child
PmKillDone_noWait ==
    /\ Active /\ ppc = "killWait"
    /\ ppc' = "done" /\ runResult' = "Abort"
    /\ UNCHANGED <<cfgVars, logVars, mainVars, status, agent, recvAction, action, pmEvent, childVars,
                   hbVars, sigVars, ehVars, rsVars, apiVars, queue>>

\* let _ = child.wait().await; Ok(Abort)
PmKillDone ==
    /\ Active /\ ppc = "killWait" /\ child # "running"
    /\ ppc' = "done" /\ runResult' = "Abort"
    /\ UNCHANGED <<cfgVars, logVars, mainVars, status, agent, recvAction, action, pmEvent, childVars,
                   hbVars, sigVars, ehVars, rsVars, apiVars, queue>>

(* ---------------- SignalHandler::run ---------------- *)
\* signals.next() yields SIGQUIT / SIGTERM: event_sender.send(Signalled(k)).await
SigDeliver(k) ==
    /\ mpc = "join" /\ spc = "wait" /\ ~sigClosed /\ sigCount < MaxSignals
    /\ sigCount' = sigCount + 1
    /\ spc' = "send" /\ sigPending' = Signalled(k)
    /\ UNCHANGED <<cfgVars, logVars, mainVars, pmVars, childVars, hbVars, signalHandle, sigClosed,
                   ehVars, rsVars, apiVars, queue>>

\* the send of Signalled(k) gets its permit: the event is queued, back to signals.next()
SigEmit ==
    /\ mpc = "join" /\ spc = "send" /\ Room
    /\ queue' = Append(queue, sigPending)
    /\ spc' = "wait" /\ sigPending' = <<>>
    /\ UNCHANGED <<cfgVars, logVars, mainVars, pmVars, childVars, hbVars, signalHandle, sigClosed,
                   sigCount, ehVars, rsVars, apiVars>>

\* faulty variant: the listener gives up its Sender when run returns
SigClosed_dropsSender ==
    /\ mpc = "join" /\ spc = "wait" /\ sigClosed
    /\ spc' = "done"
    /\ eventSenders' = eventSenders \ {"signal_handler"}
    /\ UNCHANGED <<maxRetries, retryInterval, targetEndpoint, targetId, logVars, mainVars, pmVars,
                   childVars, hbVars, signalHandle, sigClosed, sigPending, sigCount, ehVars,
                   rsVars, apiVars, queue>>

\* signals.next() yields None after the handle was closed: run returns Ok
SigClosed ==
    /\ mpc = "join" /\ spc = "wait" /\ sigClosed
    /\ spc' = "done"
    /\ UNCHANGED <<cfgVars, logVars, mainVars, pmVars, childVars, hbVars, signalHandle, sigClosed,
                   sigPending, sigCount, ehVars, rsVars, apiVars, queue>>

(* ---------------- EventHandler::run ---------------- *)
\* faulty variant: the loop condition ignores is_killed()
EhRecv_keepsLooping ==
    /\ mpc = "join" /\ rpc = "recv"
    /\ IF queue = <<>> THEN eventSenders = {} ELSE TRUE
    /\ IF queue = <<>>
       THEN /\ ApplyWorld(World)
            /\ UNCHANGED <<queue, queueAtEnd, processed, calls, childAtDispatch>>
            /\ dispatchErr' = "event queue closed"
            /\ rpc' = "failed"
            /\ MainFail("panic")
       ELSE
       LET ev == Head(queue)
           w == Dispatch(ev, World)
       IN /\ ApplyWorld(w)
          /\ queue' = Tail(queue)
          /\ queueAtEnd' = Tail(queue)
          /\ processed' = Append(processed, ev)
          /\ calls' = w.calls
          /\ dispatchErr' = w.err
          /\ childAtDispatch' = child
          /\ IF w.err = "Ok"
             THEN /\ rpc' = IF is_terminated(w.status) THEN "done" ELSE "recv"
                  /\ UNCHANGED mainVars
             ELSE /\ rpc' = "failed"
                  /\ MainFail(IF w.err = "panic" THEN "panic" ELSE "Err")
    /\ UNCHANGED <<cfgVars, logVars, ppc, pmEvent, runResult, childVars, hstatus, hpc, replied, spc,
                   sigPending, sigCount, rsVars, lastCall, cmdCalls>>

\* recv() yields an event: dispatch it, then re-evaluate the loop condition.  recv()
\* yields None, and run panics, only when the queue is empty and no Sender is left.
EhRecv ==
    /\ mpc = "join" /\ rpc = "recv"
    /\ IF queue = <<>> THEN eventSenders = {} ELSE TRUE
    /\ IF queue = <<>>
       THEN /\ ApplyWorld(World)
            /\ UNCHANGED <<queue, queueAtEnd, processed, calls, childAtDispatch>>
            /\ dispatchErr' = "event queue closed"
            /\ rpc' = "failed"
            /\ MainFail("panic")
       ELSE
       LET ev == Head(queue)
           w == Dispatch(ev, World)
       IN /\ ApplyWorld(w)
          /\ queue' = Tail(queue)
          /\ queueAtEnd' = Tail(queue)
          /\ processed' = Append(processed, ev)
          /\ calls' = w.calls
          /\ dispatchErr' = w.err
          /\ childAtDispatch' = child
          /\ IF w.err = "Ok"
             THEN /\ rpc' = IF is_terminated(w.status) \/ is_killed(w.status)
                            THEN "done" ELSE "recv"
                  /\ UNCHANGED mainVars
             ELSE /\ rpc' = "failed"
                  /\ MainFail(IF w.err = "panic" THEN "panic" ELSE "Err")
    /\ UNCHANGED <<cfgVars, logVars, ppc, pmEvent, runResult, childVars, hstatus, hpc, replied, spc,
                   sigPending, sigCount, rsVars, lastCall, cmdCalls>>

(* ---------------- main_impl after the join ---------------- *)
Joined == hpc = "done" /\ ppc = "done" /\ spc = "done" /\ rpc = "done"

\* match run_process: Complete -> break; Abort -> restart_manager.add_process_abort()?
JoinOk ==
    /\ mpc = "join" /\ Joined
    /\ IF runResult = "Complete"
       THEN /\ mpc' = "done" /\ mainResult' = "Ok"
            /\ UNCHANGED rsVars
       ELSE \E now \in clock..MaxClock :
              LET r == add_process_abort(history, maxRetries, now) IN
              /\ clock' = now
              /\ history' = r.history
              /\ allAborts' = IF r.res = "Ok" THEN Append(allAborts, now) ELSE allAborts
              /\ decisions' = decisions
              /\ mpc' = IF r.res = "Ok" THEN "decide" ELSE "done"
              /\ mainResult' = IF r.res = "Ok" THEN mainResult ELSE r.res
    /\ runs' = runs
    /\ runLog' = Append(runLog, processed)
    /\ UNCHANGED <<lookup, parsed>>
    /\ UNCHANGED <<cfgVars, pmVars, childVars, hbVars, sigVars, ehVars, apiVars, queue>>

\* faulty variant: clear_queue returns without receiving anything
clear_queue_keeps(q) == q

\* faulty variant: clear_queue throws away everything but the signals
clear_queue_keepsSignals(q) == SelectSeq(q, LAMBDA e : e \in {Signalled(k) : k \in Signal})

\* EventHandler::reset -> clear_queue: try_recv() until Empty, every event received is
\* thrown away
RECURSIVE clear_queue(_)
clear_queue(q) == IF q = <<>> THEN q ELSE clear_queue(Tail(q))

\* if should_process_restart()? { process_manager.reset()?; heartbeat.reset();
\* event_handler.reset() } else { process_manager.set_terminated(); break }
\* (the four futures of the finished join are gone: their positions return to "idle");
\* clear_queue panics on Disconnected, i.e. when no Sender is left
Decide ==
    /\ mpc = "decide"
    /\ \E now \in clock..MaxClock :
         LET yes == should_process_restart(history, maxRetries, retryInterval, now)
             w == IF yes THEN pm_reset(World) ELSE set_terminated(World)
         IN /\ clock' = now
            /\ decisions' = Append(decisions, yes)
            /\ status' = w.status
            /\ IF yes /\ w.err = "Ok"
               THEN /\ hstatus' = "Ready"
                    /\ queue' = clear_queue(queue)
                    /\ IF eventSenders = {}
                       THEN /\ mpc' = "done" /\ mainResult' = "panic"
                            /\ UNCHANGED <<hpc, ppc, spc, rpc>>
                       ELSE /\ mpc' = "loop" /\ mainResult' = mainResult
                            /\ hpc' = "idle" /\ ppc' = "idle" /\ spc' = "idle"
                            /\ rpc' = "idle"
               ELSE /\ mpc' = "done"
                    /\ mainResult' = IF yes THEN "Err" ELSE "Ok"
                    /\ hstatus' = hstatus
                    /\ queue' = queue
                    /\ UNCHANGED <<hpc, ppc, spc, rpc>>
    /\ runs' = runs
    /\ UNCHANGED <<cfgVars, logVars, agent, recvAction, action, pmEvent, runResult, childVars,
                   sendStop, stopSig, replied, signalHandle, sigClosed, sigPending, sigCount,
                   processed, calls, dispatchErr, queueAtEnd, childAtDispatch, history,
                   allAborts, apiVars>>

Next ==
    \/ StartRun
    \/ SpawnFails
    \/ HbWake \/ HbStopped \/ HbSend \/ HbReply \/ HbTimeout \/ HbEmit \/ HbIoError
    \/ \E ok \in BOOLEAN : ChildExit(ok)
    \/ ChildKilled
    \/ PmExit \/ PmEmit \/ PmCommand \/ PmKillDone
    \/ \E k \in Signal : SigDeliver(k)
    \/ SigEmit \/ SigClosed
    \/ EhRecv
    \/ JoinOk
    \/ Decide

Spec == Init /\ [][Next]_vars

(* ---------------- RestartManager on its own ----------------
   add_process_abort and should_process_restart called at nondecreasing clock
   readings, for every MAX-RETRIES in -1..MaxM and RETRY-INTERVAL in 0..MaxW. *)
RestartInit ==
    /\ maxRetries \in -1..MaxM
    /\ retryInterval \in 0..MaxW
    /\ targetEndpoint = <<Expression_from_atom(TcpEndpoint)>>
    /\ targetId = <<Expression_from_atom(AppId)>>
    /\ mpc = "restart"
    /\ Constructed

RsAdd ==
    /\ mpc = "restart" /\ Len(allAborts) < MaxAborts
    /\ \E now \in clock..MaxClock :
         LET r == add_process_abort(history, maxRetries, now) IN
         /\ clock' = now
         /\ history' = r.history
         /\ allAborts' = IF r.res = "Ok" THEN Append(allAborts, now) ELSE allAborts
         /\ mpc' = IF r.res = "Ok" THEN mpc ELSE "done"
         /\ mainResult' = IF r.res = "Ok" THEN mainResult ELSE r.res
    /\ decisions' = <<>>
    /\ UNCHANGED <<cfgVars, logVars, runs, pmVars, childVars, hbVars, sigVars, ehVars,
                   apiVars, queue>>

RsQuery ==
    /\ mpc = "restart"
    /\ \E now \in clock..MaxClock :
         /\ clock' = now
         /\ decisions' = <<should_process_restart(history, maxRetries, retryInterval, now)>>
    /\ UNCHANGED <<cfgVars, logVars, mainVars, pmVars, childVars, hbVars, sigVars, ehVars,
                   history, allAborts, apiVars, queue>>

RestartNext == RsAdd \/ RsQuery

RestartSpec == RestartInit /\ [][RestartNext]_vars

(* ---------------- ProcessManager, or Heartbeat, on its own ----------------
   The public methods of ProcessManager (mpc = "api"), or those of Heartbeat
   (mpc = "hb"), called in any order by a caller that also drains the event queue;
   run_process and Heartbeat::run are awaited one call at a time. *)
ApiInit ==
    /\ maxRetries = 3 /\ retryInterval = 60
    /\ targetEndpoint = <<Expression_from_atom(TcpEndpoint)>>
    /\ targetId = <<Expression_from_atom(AppId)>>
    /\ mpc \in {"api", "hb"}
    /\ Constructed

Called(op, res, sent) ==
    [op |-> op, res |-> res, nth |-> cmdCalls + 1, sent |-> sent, at |-> ppc]

\* faulty variant: run_process spawns whatever the status is
ApiRunProcess_ungated ==
    /\ mpc = "api" /\ ppc \in {"idle", "done"} /\ runs < MaxRuns
    /\ status' = "Running" /\ child' = "running" /\ selfExit' = FALSE
    /\ pidSeen' = "unasked"
    /\ agent' = "Some" /\ recvAction' = "open" /\ action' = <<>>
    /\ ppc' = "select" /\ pmEvent' = <<>> /\ runResult' = "none"
    /\ delivered' = 0 /\ cmdCalls' = 0 /\ runs' = runs + 1
    /\ lastCall' = [op |-> "run_process", res |-> "Pending", nth |-> 0,
                    sent |-> FALSE, at |-> ppc]
    /\ UNCHANGED <<cfgVars, logVars, mpc, mainResult, childSignals, hbVars, sigVars, ehVars,
                   rsVars, queue>>

\* run_process up to its select!, or Err(IllegalState) when the status is not Ready
ApiRunProcess ==
    /\ mpc = "api" /\ ppc \in {"idle", "done"} /\ runs < MaxRuns
    /\ IF status = "Ready"
       THEN /\ status' = "Running" /\ child' = "running" /\ selfExit' = FALSE
            /\ pidSeen' = "unasked"
            /\ agent' = "Some" /\ recvAction' = "open" /\ action' = <<>>
            /\ ppc' = "select" /\ pmEvent' = <<>> /\ runResult' = "none"
            /\ delivered' = 0 /\ cmdCalls' = 0 /\ runs' = runs + 1
            /\ lastCall' = [op |-> "run_process", res |-> "Pending", nth |-> 0,
                            sent |-> FALSE, at |-> ppc]
       ELSE /\ lastCall' = [op |-> "run_process", res |-> "IllegalState", nth |-> 0,
                            sent |-> FALSE, at |-> ppc]
            /\ UNCHANGED <<pmVars, child, selfExit, pidSeen, delivered, cmdCalls, runs>>
    /\ UNCHANGED <<cfgVars, logVars, mpc, mainResult, childSignals, hbVars, sigVars, ehVars,
                   rsVars, queue>>

ApiCommand(op, w) ==
    /\ mpc = "api" /\ cmdCalls < MaxCmdCalls
    /\ ApplyWorld(w)
    /\ cmdCalls' = cmdCalls + 1
    /\ lastCall' = Called(op, w.err, w.delivered > delivered)
    /\ UNCHANGED <<cfgVars, logVars, mainVars, ppc, pmEvent, runResult, childVars, hstatus,
                   hpc, replied, spc, sigPending, sigCount, ehVars, rsVars, queue>>

ApiKill == ApiCommand("kill_process", kill_process(World))

ApiRaise(k) == ApiCommand("raise_signal", raise_signal(World, k))

ApiSetter(op, w) ==
    /\ mpc = "api" /\ ppc \in {"idle", "done"}
    /\ ApplyWorld(w)
    /\ lastCall' = [op |-> op, res |-> w.err, nth |-> 0, sent |-> FALSE, at |-> ppc]
    /\ UNCHANGED <<cfgVars, logVars, mainVars, ppc, pmEvent, runResult, childVars, hstatus,
                   hpc, replied, spc, sigPending, sigCount, ehVars, rsVars, cmdCalls, queue>>

ApiSetKilled == ApiSetter("set_killed", set_killed(World))

ApiSetTerminated == ApiSetter("set_terminated", set_terminated(World))

ApiReset == ApiSetter("reset", pm_reset(World))

\* Heartbeat::run up to the select! of timer_loop, or Err(IllegalState) when the
\* status is not Ready
HbApiRun ==
    /\ mpc = "hb" /\ hpc \in {"idle", "done"}
    /\ IF hstatus = "Ready"
       THEN /\ hpc' = "select" /\ sendStop' = "live" /\ stopSig' = FALSE
            /\ replied' = FALSE /\ hstatus' = hstatus
            /\ lastCall' = [op |-> "run", res |-> "Pending", nth |-> 0, sent |-> FALSE,
                            at |-> hpc]
       ELSE /\ lastCall' = [op |-> "run", res |-> "IllegalState", nth |-> 0,
                            sent |-> FALSE, at |-> hpc]
            /\ UNCHANGED hbVars
    /\ UNCHANGED <<cfgVars, logVars, mainVars, pmVars, childVars, sigVars, ehVars, rsVars,
                   cmdCalls, delivered, queue>>

\* Heartbeat::stop, called at any moment
HbApiStop ==
    /\ mpc = "hb"
    /\ LET w == stop(World) IN
       /\ ApplyWorld(w)
       /\ lastCall' = [op |-> "stop", res |-> w.err, nth |-> 0, sent |-> FALSE,
                       at |-> hpc]
    /\ UNCHANGED <<cfgVars, logVars, mainVars, ppc, pmEvent, runResult, childVars, hstatus,
                   hpc, replied, spc, sigPending, sigCount, ehVars, rsVars, cmdCalls, queue>>

\* Heartbeat::reset, called between two runs
HbApiReset ==
    /\ mpc = "hb" /\ hpc \in {"idle", "done"}
    /\ hstatus' = "Ready"
    /\ lastCall' = [op |-> "reset", res |-> "Ok", nth |-> 0, sent |-> FALSE, at |-> hpc]
    /\ UNCHANGED <<cfgVars, logVars, mainVars, pmVars, childVars, sendStop, stopSig, hpc,
                   replied, sigVars, ehVars, rsVars, cmdCalls, delivered, queue>>

\* the caller receives one event
ApiRecv ==
    /\ mpc \in {"api", "hb"} /\ queue # <<>>
    /\ queue' = Tail(queue)
    /\ UNCHANGED <<cfgVars, logVars, mainVars, pmVars, childVars, hbVars, sigVars, ehVars,
                   rsVars, apiVars>>

ApiNext ==
    \/ ApiRunProcess
    \/ ApiKill
    \/ \E k \in Signal : ApiRaise(k)
    \/ ApiSetKilled \/ ApiSetTerminated \/ ApiReset
    \/ ApiRecv
    \/ \E ok \in BOOLEAN : ChildExit(ok)
    \/ ChildKilled
    \/ PmExit \/ PmEmit \/ PmCommand \/ PmKillDone
    \/ HbApiRun \/ HbApiStop \/ HbApiReset
    \/ HbWake \/ HbStopped \/ HbSend \/ HbReply \/ HbTimeout \/ HbEmit \/ HbIoError

ApiSpec == ApiInit /\ [][ApiNext]_vars

(* ---------------- endpoint resolution and keywords on their own ----------------
   app_endpoint called for every configuration of TARGET-ENDPOINT / TARGET-ID and every
   resolver reply of one or two atoms; the keyword parsers and the comparison of a
   received atom with a keyword called for every source form and atom.  Atoms are the
   words below in three casings, with and without a leading ':'. *)
Words == {endpoint, missing, <<"t", "c", "p">>, <<"x", "y", "z">>}
Casings == {"lower", "upper", "mixed"}

Cased(word, casing) ==
    [i \in 1..Len(word) |->
        IF casing = "upper" \/ (casing = "mixed" /\ i % 2 = 0)
        THEN char_to_uppercase(word[i]) ELSE word[i]]

Forms == {Cased(w, c) : w \in Words, c \in Casings}
    \cup {<<":">> \o Cased(w, c) : w \in Words, c \in Casings}

WireAtoms ==
    {Cased(w, c) : w \in {endpoint, missing}, c \in Casings}
    \cup {<<":">> \o Cased(w, c) : w \in {endpoint, missing}, c \in Casings}
    \cup {<<"t", "c", "p">>, <<":", "t", "c", "p">>}

WireReplies == {<<a>> : a \in WireAtoms} \cup {<<a, b>> : a \in WireAtoms, b \in WireAtoms}

ResolveInit ==
    /\ maxRetries = 3 /\ retryInterval = 60
    /\ targetEndpoint \in {<<>>, <<Expression_from_atom(TcpEndpoint)>>,
                           <<Expression_from_atom(<<":", "t", "c", "p">>)>>}
    /\ targetId \in {<<>>, <<Expression_from_atom(AppId)>>,
                     <<Expression_from_atom(<<"x", "y", "z">>)>>}
    /\ mpc \in {"resolve", "parse"}
    /\ Constructed

\* one tick's call of app_endpoint, the resolver answering reply if it is asked
ResolveTick(reply) ==
    /\ mpc = "resolve"
    /\ lookup' = app_endpoint(targetEndpoint, targetId, reply)
    /\ UNCHANGED <<cfgVars, mainVars, runLog, parsed, pmVars, childVars, hbVars, sigVars, ehVars,
                   rsVars, apiVars, queue>>

\* a source form read as a configuration indicator and as a configuration value, and
\* the resulting keyword compared with a received atom
ParseForm(src, atom) ==
    /\ mpc = "parse" /\ parsed = NoParse
    /\ parsed' = [src |-> src, indicator |-> Keyword_from_sexp(src),
                  value |-> Expression_from_atom(src), atom |-> atom,
                  eq |-> Message_eq(Message_try_from(atom), Keyword_from_sexp(src).text)]
    /\ UNCHANGED <<cfgVars, mainVars, runLog, lookup, pmVars, childVars, hbVars, sigVars, ehVars,
                   rsVars, apiVars, queue>>

ResolveNext ==
    \/ \E reply \in WireReplies : ResolveTick(reply)
    \/ \E src \in Forms, atom \in Forms : ParseForm(src, atom)

ResolveSpec == ResolveInit /\ [][ResolveNext]_vars

(* ======================= properties ======================= *)
Range(q) == {q[i] : i \in 1..Len(q)}
IsPrefix(a, b) == Len(a) <= Len(b) /\ \A i \in 1..Len(a) : a[i] = b[i]
Ended(st) == st \in {"Terminated", "Killed"}

\* the calls the dispatch table of the reducer lists for an event
TableCalls(ev) ==
    CASE ev = Timeout -> <<<<"kill_process">>, <<"close">>>>
      [] ev = Aborted -> <<<<"set_killed">>, <<"stop">>, <<"close">>>>
      [] ev = Complete -> <<<<"set_terminated">>, <<"stop">>, <<"close">>>>
      [] OTHER -> <<<<"raise_signal", ev[2]>>, <<"stop">>, <<"close">>>>

\* C1: EventHandler::run returns Ok only with the child status Terminated or Killed,
\* is still receiving only while the status is neither, and stops (returns) in the very
\* dispatch that makes the status Terminated or Killed, at which moment no event is
\* left in the queue.
C1_ReducerExitPredicate ==
    /\ rpc = "done" => Ended(status)
    /\ (rpc = "recv" /\ mpc = "join") => ~Ended(status)
    /\ (rpc \in {"done", "failed"}) => (processed # <<>> /\ queueAtEnd = <<>>)

C1_Witness ==
    mpc = "join" /\ rpc = "done" /\ status = "Killed" /\ processed = <<Timeout>>

\* the steps the four actors, the timers, a killed child and the join take by themselves
ActorStep ==
    \/ HbWake \/ HbStopped \/ HbSend \/ HbTimeout \/ HbEmit
    \/ ChildKilled \/ PmExit \/ PmEmit \/ PmCommand \/ PmKillDone
    \/ SigEmit \/ SigClosed
    \/ JoinOk

\* C2: once the reducer has processed the run-ending event and returned, the run is
\* never stuck: until the join completes some actor can still take a step towards
\* returning.
C2_RunNeverStuck ==
    (mpc = "join" /\ rpc = "done") => ENABLED ActorStep

\* C3 (as claimed): every dispatch makes exactly the calls of the table, in order.
C3_ExactlyTableCalls ==
    processed # <<>> => calls = TableCalls(processed[Len(processed)])

\* C3 (amended): every dispatch makes the calls of the table in order, up to and
\* including the first call that returns an error; all of them when the dispatch
\* returns Ok, and a strict prefix ending in the failing call otherwise.
C3_TableCallsUntilError ==
    processed # <<>> =>
        LET t == TableCalls(processed[Len(processed)]) IN
        /\ calls # <<>> /\ IsPrefix(calls, t)
        /\ dispatchErr = "Ok" => calls = t
        /\ dispatchErr # "Ok" => Len(calls) < Len(t)

C3_Witness ==
    /\ processed = <<Timeout>> /\ dispatchErr = "Ok"
    /\ calls = <<<<"kill_process">>, <<"close">>>>

\* a run whose join completed, in which the child never replied nor exited by itself
SilentRunJoined == mpc = "join" /\ Joined /\ ~replied /\ ~selfExit

\* C4 (as claimed): in a run in which the child never replies and does not exit by
\* itself (and no signal arrives), the reducer processes Timeout and then Aborted.
C4_TimeoutThenAborted ==
    (SilentRunJoined /\ sigCount = 0) => processed = <<Timeout, Aborted>>

\* C4 (amended): in such a run the reducer processes Timeout and nothing after it: the
\* Kill branch of run_process enqueues no Aborted event, run_process returns Abort and
\* the child status is Killed.
C4_TimeoutOnly ==
    SilentRunJoined =>
        /\ sigCount = 0 => processed = <<Timeout>>
        /\ Timeout \in Range(processed) =>
              /\ processed = <<Timeout>>
              /\ Aborted \notin Range(queue)
              /\ runResult = "Abort" /\ status = "Killed"

C4_Witness ==
    SilentRunJoined /\ processed = <<Timeout>> /\ runResult = "Abort" /\ child = "killed"

\* a run whose join completed after the reducer processed Timeout with the child running
TimeoutRunJoined ==
    /\ Joined /\ processed = <<Timeout>> /\ childAtDispatch = "running"

AllRunsAborted == \A i \in 1..Len(runLog) : runLog[i] = <<Aborted>>

\* C6: with RETRY-INTERVAL=60, MAX-RETRIES=3 and a child that exits non-zero on every
\* run, the child is restarted three times and should_process_restart is false for the
\* first time on the fourth abort; the status is then Terminated and main_impl returns Ok.
C6_ThreeRestarts ==
    (/\ maxRetries = 3 /\ retryInterval = 60 /\ AllRunsAborted
     /\ decisions # <<>> /\ ~decisions[Len(decisions)]) =>
        /\ decisions = <<TRUE, TRUE, TRUE, FALSE>>
        /\ status = "Terminated" /\ mainResult = "Ok"

\* C10: SIGQUIT is never sent to the child, and SIGTERM has been sent to it whenever
\* main_impl returns Ok after the reducer processed Signalled(Term) with the child running.
C10_TermRelayedQuitNot ==
    /\ "SIGQUIT" \notin childSignals
    /\ (/\ mpc = "done" /\ mainResult = "Ok" /\ processed = <<Signalled("Term")>>
        /\ childAtDispatch = "running")
          => "SIGTERM" \in childSignals

(* ---------------- RestartManager properties (RestartSpec) ---------------- *)
\* number of timestamps of q inside the window [now - w, ...]
InWindow(q, w, now) == Cardinality({i \in 1..Len(q) : q[i] >= now - w})

\* the last n elements of q
LastN(q, n) == IF Len(q) <= n THEN q ELSE SubSeq(q, Len(q) - n + 1, Len(q))

\* C7: at every clock reading now, should_process_restart on the pruned history is false
\* iff at least MAX-RETRIES of all the timestamps ever recorded lie in the window, and
\* the decision returned by the last call since the last abort agrees with that count.
C7_DecisionOnFullSequence ==
    /\ \A now \in clock..MaxClock :
          should_process_restart(history, maxRetries, retryInterval, now)
              = ~(InWindow(allAborts, retryInterval, now) >= maxRetries)
    /\ decisions # <<>> =>
          decisions[1] = ~(InWindow(allAborts, retryInterval, clock) >= maxRetries)

C7_Witness ==
    /\ Len(allAborts) > Len(history) /\ history # <<>>
    /\ decisions = <<FALSE>>
    /\ InWindow(allAborts, retryInterval, clock) > maxRetries

\* C8: after every add_process_abort that returned Ok the history holds at most
\* MAX-RETRIES entries: it is the last MAX-RETRIES timestamps recorded, the newest last.
C8_HistoryBounded ==
    allAborts # <<>> =>
        /\ Len(history) <= maxRetries
        /\ history = LastN(allAborts, maxRetries)

C8_Witness ==
    /\ Len(history) = maxRetries /\ Len(allAborts) > maxRetries
    /\ history[Len(history)] = clock

(* ---------------- ProcessManager properties (ApiSpec) ---------------- *)
\* C9: at most one command is put into the command channel per installed sender; a
\* second kill_process / raise_signal after the sender was installed, or one made
\* before any child was spawned, returns NoRunningProcess and puts nothing into the
\* channel.
C9_OneCommandPerRun ==
    /\ delivered <= 1
    /\ (lastCall.op \in {"kill_process", "raise_signal"} /\ (lastCall.nth >= 2 \/ runs = 0))
          => (lastCall.res = "NoRunningProcess" /\ ~lastCall.sent)
    /\ lastCall.sent => (lastCall.res = "Ok" /\ lastCall.nth = 1 /\ delivered = 1)

C9_Witness ==
    /\ lastCall.op = "raise_signal" /\ lastCall.nth = 2
    /\ lastCall.res = "NoRunningProcess" /\ delivered = 1
    /\ ppc = "select" /\ action = Kill

(* ---------------- properties of the supervised run, continued (Spec) ---------------- *)
\* the reducer's first dispatch of this run was Signalled(k) with the child running,
\* and the heartbeat hit no I/O error
SignalFirst ==
    /\ processed # <<>> /\ processed[1] \in {Signalled(k) : k \in Signal}
    /\ childAtDispatch = "running" /\ hpc # "failed"

\* C11: if Signalled(k) is the first event of a run and the child is still running, the
\* reducer issues RaiseSignal(k) (the dispatch returns Ok), no abort is recorded for
\* that run, and main_impl ends with Ok after run_process returned Complete.
C11_SignalEndsSupervisor ==
    SignalFirst =>
        /\ dispatchErr = "Ok" /\ delivered = 1
        /\ mpc # "decide"
        /\ mpc = "done" => (mainResult = "Ok" /\ runResult = "Complete")

\* C12: a command that kill_process / raise_signal sent with Ok is never lost: whenever
\* run_process has left its select! through the child-exit branch (it is sending, or has
\* sent, the Complete / Aborted event), no command had been put into the channel.
C12_CommandNeverLost ==
    /\ ppc = "sendEvent" => delivered = 0
    /\ (mpc = "join" /\ ppc = "done" /\ delivered = 1) =>
          runResult = (IF status = "Killed" THEN "Abort" ELSE "Complete")

\* the changes of the child status the claim lists
ClaimedStatusSteps ==
    {<<"Ready", "Running">>, <<"Running", "Terminated">>, <<"Running", "Killed">>,
     <<"Killed", "Ready">>}

\* C13 (as claimed): every change of the child status is Ready->Running,
\* Running->Terminated, Running->Killed or Killed->Ready.
C13_StatusStepsClaimed ==
    [][status' # status => <<status, status'>> \in ClaimedStatusSteps]_vars

\* C13 (amended): every change of the child status is one of the four claimed or
\* Killed->Terminated; the status leaves Killed only in main_impl's restart decision
\* (reset, or set_terminated when the retries are exhausted), never leaves Terminated,
\* and Killed is entered only from Running.
C13_StatusSteps ==
    [][status' # status =>
        /\ <<status, status'>> \in ClaimedStatusSteps \cup {<<"Killed", "Terminated">>}
        /\ status = "Killed" => mpc = "decide"
        /\ status' = "Ready" => mpc' = "loop"]_vars

C13_Witness ==
    /\ mpc = "done" /\ mainResult = "Ok" /\ status = "Terminated"
    /\ processed = <<Aborted>> /\ dispatchErr = "Ok"
    /\ decisions # <<>> /\ ~decisions[Len(decisions)]

\* C14: every change of the probe status is Ready->Req when a request has been sent,
\* Req->Ready on a reply, Req->Timeout when the deadline elapses, or the reset to Ready
\* between two runs; with the status Timeout the prober is past its last request: it
\* only sends its Timeout event and returns.
C14_ProbeStatusSteps ==
    /\ []((mpc = "join" /\ hstatus = "Timeout") => hpc \in {"sendEvent", "done"})
    /\ [][hstatus' # hstatus =>
            CASE hstatus' = "Req" -> hstatus = "Ready" /\ hpc = "beat" /\ hpc' = "inflight"
              [] hstatus' = "Timeout" -> hstatus = "Req" /\ hpc = "inflight"
              [] hstatus = "Req" -> hstatus' = "Ready" /\ hpc = "inflight" /\ replied'
              [] OTHER -> /\ hstatus = "Timeout" /\ hstatus' = "Ready"
                          /\ mpc = "decide" /\ mpc' = "loop" /\ hpc = "done"]_vars

C14_Witness ==
    /\ runs >= 2 /\ mpc = "join" /\ runLog # <<>> /\ runLog[1] = <<Timeout>>
    /\ hstatus = "Req" /\ replied

\* C15: whenever a run returned Abort (main_impl is in its restart decision) the child
\* status is Killed, so ProcessManager::reset succeeds: main_impl never ends with an
\* error after should_process_restart returned true.
C15_RestartResetSucceeds ==
    /\ mpc = "decide" => status = "Killed"
    /\ (mpc = "done" /\ Joined /\ decisions # <<>> /\ decisions[Len(decisions)])
          => mainResult # "Err"

\* C16: main_impl returns Ok exactly when the join of some run completed and its
\* run_process result is Complete, or Abort with should_process_restart false (the
\* status is then Terminated); an error of an actor, of the restart bookkeeping or of a
\* reset ends main_impl with that error at once, and after main_impl has returned
\* nothing is recorded and no run is started.
C16_MainResult ==
    /\ []((mainResult # "none") <=> (mpc = "done"))
    /\ []((hpc = "failed" \/ rpc = "failed") => (mpc = "done" /\ mainResult # "Ok"))
    /\ [](mpc = "done" =>
            ((mainResult = "Ok") <=>
                /\ Joined
                /\ \/ runResult = "Complete"
                   \/ /\ runResult = "Abort" /\ status = "Terminated"
                      /\ decisions # <<>> /\ ~decisions[Len(decisions)]))
    /\ [][mpc = "done" =>
            UNCHANGED <<mpc, mainResult, runs, history, allAborts, decisions, status>>]_vars

C16_Witness ==
    /\ mpc = "done" /\ mainResult = "Err" /\ rpc = "failed"
    /\ runs >= 2 /\ Len(allAborts) = runs - 1 /\ Len(decisions) = runs - 1

(* ---------------- Heartbeat properties (ApiSpec) ---------------- *)
\* C17: Heartbeat::stop returns Ok when the timer loop is waiting in its select! (the
\* stop signal is delivered) and when the Heartbeat task is not running: never started,
\* ended by an earlier stop, or ended after emitting Timeout.
C17_StopOkWhenStopped ==
    (lastCall.op = "stop" /\ lastCall.at \in {"select", "idle", "done"})
        => lastCall.res = "Ok"

(* ---------------- properties of the supervised run, continued (Spec) ---------------- *)
\* C18: the heartbeat.stop() call the reducer makes while processing Aborted, Complete
\* or Signalled never fails with PeerChannelClosed, and as long as the join lasts the
\* prober is then about to leave its select! or has returned, without the status
\* Timeout.
C18_ReducerStopSucceeds ==
    <<"stop">> \in Range(calls) =>
        /\ dispatchErr # "PeerChannelClosed"
        /\ mpc = "join" => (hpc \in {"select", "done"} /\ hstatus # "Timeout")

(* ---------------- start gates (ApiSpec) ---------------- *)
\* C19: Heartbeat::run called with the probe status not Ready, and run_process called
\* with the child status not Ready, return IllegalState and change nothing (no request,
\* no child, no event, same status); called with the status Ready they start.
C19_StartGates ==
    /\ [][(HbApiRun /\ hstatus # "Ready") =>
            /\ lastCall'.op = "run" /\ lastCall'.res = "IllegalState"
            /\ UNCHANGED <<hbVars, pmVars, childVars, queue>>]_vars
    /\ [][(ApiRunProcess /\ status # "Ready") =>
            /\ lastCall'.op = "run_process" /\ lastCall'.res = "IllegalState"
            /\ UNCHANGED <<pmVars, childVars, hbVars, queue, runs>>]_vars
    /\ [](lastCall.res = "Pending" =>
            IF lastCall.op = "run" THEN hpc # "idle" ELSE status # "Ready")
    /\ []((child = "running" /\ ppc = "select") => status \in {"Running", "Killed", "Terminated"})

C19_Witness ==
    /\ mpc = "hb" /\ lastCall.op = "run" /\ lastCall.res = "IllegalState"
    /\ hstatus = "Timeout" /\ hpc = "done" /\ queue = <<>>

(* ---------------- properties of the supervised run, continued (Spec) ---------------- *)
\* a step that appends a Timeout event to the event queue
TimeoutEnqueued == Len(queue') > Len(queue) /\ queue'[Len(queue')] = Timeout

\* C20 (as claimed): the prober emits its Timeout event iff its status becomes Timeout:
\* when main_impl has returned with the probe status Timeout, the Timeout event was
\* enqueued and Heartbeat::run had ended.
C20_TimeoutIffEmitted ==
    (mpc = "done" /\ hstatus = "Timeout") => hpc = "done"

\* C20 (amended): a tick whose deadline expires sets the status to Timeout, enqueues
\* nothing yet and starts sending one Timeout event; the event is enqueued when the
\* queue has room, and Heartbeat::run then returns; a reply restores Ready, enqueues
\* nothing and continues the loop; a Timeout event is enqueued only with the status
\* Timeout, and after the prober has returned it enqueues nothing more in that run.
C20_TimeoutEmission ==
    /\ [][TimeoutEnqueued =>
            /\ hstatus = "Timeout" /\ hstatus' = "Timeout"
            /\ hpc = "sendEvent" /\ hpc' = "done"
            /\ queue' = Append(queue, Timeout)]_vars
    /\ [][(hstatus # "Timeout" /\ hstatus' = "Timeout") =>
            (hpc' = "sendEvent" /\ queue' = queue)]_vars
    /\ [][(hstatus = "Req" /\ hstatus' = "Ready") =>
            (hpc' = "select" /\ queue' = queue)]_vars
    /\ [][(hpc = "done" /\ mpc = "join" /\ mpc' = "join") => hpc' = "done"]_vars
    /\ [](hpc = "sendEvent" => hstatus = "Timeout")

C20_Witness ==
    /\ mpc = "done" /\ mainResult = "Err" /\ hstatus = "Timeout" /\ hpc = "sendEvent"
    /\ Timeout \notin Range(queue) /\ Timeout \notin Range(processed)
    /\ dispatchErr = "NoRunningProcess"

\* the first run is under way, every request so far was answered, the child has not
\* exited and no signal has arrived
HealthyRun ==
    /\ mpc = "join" /\ runs = 1 /\ child = "running" /\ sigCount = 0
    /\ hstatus # "Timeout" /\ hpc # "failed"

\* C21: as long as every heartbeat request is answered, the child has not exited and no
\* signal has arrived, the probe status is Ready whenever the prober waits between
\* ticks, no event is enqueued or dispatched, no command or signal is sent to the child,
\* and the restart history is empty.
C21_HealthyRunQuiet ==
    HealthyRun =>
        /\ hpc = "select" => hstatus = "Ready"
        /\ queue = <<>> /\ processed = <<>>
        /\ delivered = 0 /\ action = <<>> /\ childSignals = {}
        /\ history = <<>> /\ allAborts = <<>>
        /\ status = "Running"

C21_Witness ==
    HealthyRun /\ replied /\ hpc = "select" /\ hstatus = "Ready"

\* a step that appends a Complete or Aborted event to the event queue
ExitEventEnqueued ==
    Len(queue') > Len(queue) /\ queue'[Len(queue')] \in {Complete, Aborted}

\* C22: run_process returns from the child-exit branch in the step that enqueues its one
\* event, Complete with result Complete after a successful exit and Aborted with result
\* Abort after a failed one; it returns from the command branch (RaiseSignal at once,
\* Kill after the child is gone) without enqueuing anything; and no Complete / Aborted
\* event is enqueued in any other step.
C22_ExitBranchOneEvent ==
    /\ [][(ppc = "sendEvent" /\ ppc' = "done") =>
            /\ child \in {"exitedOk", "exitedFail"}
            /\ queue' = Append(queue, IF child = "exitedOk" THEN Complete ELSE Aborted)
            /\ runResult' = (IF child = "exitedOk" THEN "Complete" ELSE "Abort")]_vars
    /\ [][(ppc = "select" /\ ppc' \in {"done", "killWait"}) =>
            /\ action # <<>> /\ queue' = queue
            /\ ppc' = "done" <=> action # Kill
            /\ ppc' = "done" => runResult' = "Complete"]_vars
    /\ [][(ppc = "killWait" /\ ppc' = "done") =>
            (queue' = queue /\ runResult' = "Abort")]_vars
    /\ [][ExitEventEnqueued => (ppc = "sendEvent" /\ ppc' = "done")]_vars
    /\ [][(ppc = "select" /\ ppc' = "sendEvent") => (queue' = queue /\ action' = <<>>)]_vars

C22_Witness ==
    /\ mpc = "join" /\ ppc = "done" /\ runResult = "Complete" /\ child = "exitedOk"
    /\ queue = <<Complete>> /\ delivered = 0

\* C23: when the RaiseSignal branch finds no PID (the child has already exited), the step
\* sends no OS signal, enqueues nothing and returns Complete, whether the child had exited
\* successfully or not; a PID is only ever missing for a child that has exited.
C23_NoPidNoSignal ==
    /\ [][(ppc = "select" /\ ppc' = "done" /\ pidSeen' = "None") =>
            /\ child \in {"exitedOk", "exitedFail"}
            /\ childSignals' = childSignals
            /\ queue' = queue
            /\ runResult' = "Complete"]_vars
    /\ [](pidSeen = "None" => (ppc = "done" /\ runResult = "Complete"))

C23_Witness ==
    /\ mpc = "join" /\ pidSeen = "None" /\ child = "exitedFail"
    /\ ppc = "done" /\ runResult = "Complete" /\ childSignals = {}

\* a Signalled event is at the head of the event queue after the reducer has dispatched
\* the Aborted event of the run
LateSignalled ==
    /\ processed # <<>> /\ processed[1] = Aborted
    /\ queue # <<>> /\ Head(queue) \in {Signalled(k) : k \in Signal}

\* C24 as stated: a Signalled event that follows the Aborted event of its run leaves the
\* queue only by being dispatched, which moves the child status to Terminated.
C24_LateSignalledProcessed ==
    [][(LateSignalled /\ queue' # queue) =>
        (processed' = Append(processed, Head(queue)) /\ status' = "Terminated")]_vars

\* C24 (amended): the reducer dispatches nothing after Aborted: it has left its loop (the
\* status is Killed), so a Signalled event that follows Aborted is never dispatched and the
\* status stays Killed for the rest of the run; the event leaves the queue only when
\* EventHandler::reset drains it before the restart.
C24_LateSignalledDiscarded ==
    /\ []((processed # <<>> /\ processed[1] = Aborted) =>
             (processed = <<Aborted>> /\ rpc # "recv"))
    /\ []((processed # <<>> /\ processed[1] = Aborted /\ mpc = "join") => status = "Killed")
    /\ [][(LateSignalled /\ queue' # queue) =>
            /\ mpc = "decide" /\ mpc' = "loop"
            /\ queue' = <<>> /\ processed' = processed /\ calls' = calls
            /\ status' = "Ready"]_vars

C24_Witness ==
    LateSignalled /\ mpc = "decide" /\ rpc = "done" /\ status = "Killed" /\ dispatchErr = "Ok"

\* C25: the step in which the Conductor resets for a restart leaves the event queue empty
\* and dispatches nothing; the holders of the command sender, the stop sender and the
\* signal handle and the restart history are unchanged, the child status is the one
\* ProcessManager::reset sets and the probe status the one Heartbeat::reset sets.  The
\* queue is therefore empty whenever a run starts, events are enqueued and dispatched only
\* during a run, and the dispatched events of a run start afresh with the run: every
\* event the reducer dispatches was sent during the same run.
C25_ResetOnlyDrains ==
    /\ [][(mpc = "decide" /\ mpc' = "loop") =>
            /\ queue' = <<>>
            /\ processed' = processed /\ calls' = calls /\ dispatchErr' = dispatchErr
            /\ delivered' = delivered /\ action' = action
            /\ agent' = agent /\ sendStop' = sendStop /\ signalHandle' = signalHandle
            /\ history' = history /\ allAborts' = allAborts
            /\ status' = pm_reset(World).status /\ hstatus' = "Ready"]_vars
    /\ [](mpc = "loop" => (queue = <<>> /\ hpc = "idle" /\ ppc = "idle" /\ spc = "idle"))
    /\ [][Len(queue') > Len(queue) => (mpc = "join" /\ mpc' = "join")]_vars
    /\ [][processed' # processed =>
            \/ mpc = "loop" /\ processed' = <<>> /\ queue = <<>>
            \/ mpc = "join" /\ queue # <<>> /\ processed' = Append(processed, Head(queue))]_vars

\* the first run ended in Abort with a Signalled event sent but not dispatched, and the
\* reset before the second run has drained it
C25_Witness ==
    /\ mpc = "loop" /\ runs = 1 /\ sigCount = 1 /\ processed = <<Aborted>>
    /\ queue = <<>> /\ status = "Ready" /\ hstatus = "Ready"

\* the canonical name of an atom: the uppercase of the text after an optional ':'
Canonical(atom) ==
    to_uppercase(IF strip_prefix(atom) # <<>> THEN strip_prefix(atom)[1] ELSE atom)

\* the classification of a two-atom reply on canonical names
ClassifiedCanonically(id, reply) ==
    IF Canonical(reply[1]) = kw(endpoint)
    THEN [tag |-> "Ok", text |-> as_str(Message_try_from(reply[2]))]
    ELSE IF Canonical(reply[1]) = kw(missing) /\ Canonical(reply[2]) = kw(endpoint)
         THEN [tag |-> "MappingMissing", text |-> id]
         ELSE [tag |-> "UnknownResponse", text |-> as_str(Message_try_from(reply[1]))]

\* C27: every two-atom reply the resolver gives is classified on the canonical names of
\* its atoms: endpoint first gives the second atom as the endpoint, missing then endpoint
\* gives MappingMissing(id), anything else UnknownResponse with the first atom's text,
\* whatever the letter case of the atoms and with or without a leading ':'.
C27_SgetClassifies ==
    (lookup.invoked /\ Len(lookup.reply) = 2) =>
        lookup.res = ClassifiedCanonically(targetId[1].text, lookup.reply)

\* C28: a tick of a configuration with a string TARGET-ENDPOINT returns that string and
\* does not ask the resolver; without TARGET-ENDPOINT the tick fails with
\* MissingKey(TARGET-ID) when TARGET-ID is absent and otherwise asks the resolver, whose
\* reply decides the result: the endpoint of an Ok result is the second atom of the reply.
\* The resolver is asked only in configurations for which requires_sup is true.
C28_EndpointSource ==
    lookup # NoLookup =>
        /\ (targetEndpoint # <<>> /\ targetEndpoint[1].tag = "String") =>
              /\ ~lookup.invoked
              /\ lookup.res = [tag |-> "Ok", text |-> TcpEndpoint]
        /\ targetEndpoint # <<>> => ~lookup.invoked
        /\ (targetEndpoint = <<>> /\ targetId = <<>>) =>
              /\ ~lookup.invoked
              /\ lookup.res = [tag |-> "MissingKey", text |-> TARGET_ID]
        /\ (targetEndpoint = <<>> /\ targetId # <<>> /\ targetId[1].tag = "Keyword") =>
              /\ lookup.invoked
              /\ lookup.res = sget(targetId[1].text, lookup.reply)
              /\ lookup.res.tag = "Ok" =>
                    lookup.res.text = as_str(Message_try_from(lookup.reply[2]))
        /\ lookup.invoked => requires_sup(targetEndpoint)

\* a tick that used TARGET-ENDPOINT without asking the resolver
C28_Witness ==
    /\ mpc = "resolve" /\ targetEndpoint # <<>> /\ ~lookup.invoked
    /\ lookup.res = [tag |-> "Ok", text |-> TcpEndpoint]

\* C29: a source form ':name' parses, as an indicator and as a value, to the keyword whose
\* name is the uppercase of name, and a received atom equals a keyword exactly when their
\* canonical names are equal.
C29_KeywordCanonical ==
    (parsed # NoParse /\ strip_prefix(parsed.src) # <<>>) =>
        /\ parsed.indicator = [tag |-> "Keyword", text |-> Canonical(parsed.src)]
        /\ parsed.value = [tag |-> "Keyword", text |-> Canonical(parsed.src)]
        /\ parsed.eq = (Canonical(parsed.atom) = Canonical(parsed.src))

\* the tick of the prober has failed with MappingMissing(<id>)
MappingMissingTick ==
    hpc = "failed" /\ lookup.res = [tag |-> "MappingMissing", text |-> targetId[1].text]

\* C26: without TARGET-ENDPOINT, a tick to which the resolver answers [MISSING, ENDPOINT]
\* fails with MappingMissing(<id>): Heartbeat::run has failed and main_impl has returned
\* an error.  The failing tick enqueues no event, sends no command or OS signal to the
\* child and records no abort; after main_impl has returned nothing is enqueued, sent,
\* recorded or restarted; and when the tick is the first of the first run, with no signal
\* and the child still running by itself, no event, command or restart ever existed.
C26_MappingMissingFails ==
    /\ []((lookup.invoked /\ lookup.reply = <<kw(missing), kw(endpoint)>>) =>
             (MappingMissingTick /\ lookup.res.text = Canonical(AppId)))
    /\ [](lookup.res.tag = "MappingMissing" =>
             /\ targetEndpoint = <<>> /\ lookup.invoked
             /\ MappingMissingTick /\ mpc = "done" /\ mainResult = "Err")
    /\ [][(lookup'.res.tag = "MappingMissing" /\ lookup.res.tag # "MappingMissing") =>
            /\ queue' = queue /\ action' = action /\ delivered' = delivered
            /\ childSignals' = childSignals /\ hstatus' = hstatus
            /\ history' = history /\ decisions' = decisions /\ runs' = runs]_vars
    /\ [][mpc = "done" =>
            UNCHANGED <<mainResult, runs, history, decisions, queue, action, delivered,
                        childSignals, processed>>]_vars
    /\ []((MappingMissingTick /\ runs = 1 /\ ~replied /\ sigCount = 0 /\ ~selfExit) =>
             /\ queue = <<>> /\ processed = <<>> /\ hstatus = "Ready"
             /\ delivered = 0 /\ action = <<>> /\ childSignals = {}
             /\ history = <<>> /\ decisions = <<>>)

C26_Witness ==
    /\ MappingMissingTick /\ runs = 1 /\ ~replied /\ child = "running"
    /\ mpc = "done" /\ mainResult = "Err" /\ queue = <<>> /\ history = <<>>

\* C30: every owner of a Sender of the event queue keeps it in every state, so recv() and
\* try_recv() never see a closed queue: the reducer never fails with "event queue closed"
\* and the reset before a restart never panics, in the first run and after restarts.
C30_QueueNeverClosed ==
    /\ [](eventSenders = EventSenderOwners)
    /\ [](dispatchErr # "event queue closed")
    /\ [](rpc = "recv" => (queue # <<>> \/ eventSenders # {}))
    /\ [][(mpc = "decide" /\ mpc' = "done") => mainResult' \in {"Ok", "Err"}]_vars

\* the reducer waits on an empty queue in a run that follows a restart
C30_Witness ==
    /\ mpc = "join" /\ runs = 2 /\ rpc = "recv" /\ queue = <<>>
    /\ {"heartbeat", "signal_handler", "process_manager"} \subseteq eventSenders

\* C31: the signal-handle holder changes only by an install into an empty holder, at the
\* start of a run, or by close() taking an installed handle; the holder is empty whenever
\* the Conductor is about to start a run; and close() never finds the holder empty (no
\* dispatch ends in the "signal handle missing" panic).
C31_InstallCloseAlternate ==
    /\ [][signalHandle' # signalHandle =>
            \/ /\ signalHandle = "None" /\ signalHandle' = "Some"
               /\ mpc = "loop" /\ mpc' = "join"
            \/ /\ signalHandle = "Some" /\ signalHandle' = "None"
               /\ mpc = "join" /\ calls' # <<>> /\ calls'[Len(calls')] = <<"close">>
               /\ sigClosed']_vars
    /\ [](mpc = "loop" => signalHandle = "None")
    /\ [][(mpc = "loop" /\ mpc' = "join") => signalHandle' = "Some"]_vars
    /\ [](dispatchErr # "panic")

\* the handle of the second run has been installed and taken by close()
C31_Witness ==
    /\ runs = 2 /\ mpc = "join" /\ signalHandle = "None" /\ sigClosed
    /\ dispatchErr = "Ok" /\ calls # <<>> /\ calls[Len(calls)] = <<"close">>

\* how many times a call occurs in the calls of a dispatch
CallCount(c) == Cardinality({i \in 1..Len(calls) : calls[i] = c})

\* C32: in every run the reducer dispatches at most one event; a dispatch that returns Ok
\* leaves the child status Killed or Terminated and the reducer out of its loop; at most
\* one command is put into the command channel per run; heartbeat.stop() and
\* signal_handler.close() are each called at most once per run.
C32_OneDispatchPerRun ==
    /\ Len(processed) <= 1
    /\ \A i \in 1..Len(runLog) : Len(runLog[i]) <= 1
    /\ (mpc = "join" /\ processed # <<>> /\ dispatchErr = "Ok") =>
          (Ended(status) /\ rpc = "done")
    /\ delivered <= 1
    /\ CallCount(<<"stop">>) <= 1 /\ CallCount(<<"close">>) <= 1
    /\ processed = <<>> => (mpc \in {"loop", "join"} => calls = <<>>)

C32_Witness ==
    /\ mpc = "join" /\ runs = 2 /\ processed = <<Timeout>> /\ dispatchErr = "Ok"
    /\ rpc = "done" /\ delivered = 1 /\ CallCount(<<"close">>) = 1

\* the reducer is about to dispatch a Timeout or Signalled event while run_process has
\* already left its select! through the child-exit branch
CommandAfterExit ==
    /\ mpc = "join" /\ rpc = "recv" /\ queue # <<>>
    /\ Head(queue) \in {Timeout} \cup {Signalled(k) : k \in Signal}
    /\ agent = "Some" /\ recvAction = "dropped"
    /\ \/ ppc = "sendEvent"
       \/ ppc = "done" /\ runResult \in {"Complete", "Abort"}

\* C33: a Timeout or Signalled event dispatched after run_process has resolved through the
\* child-exit branch makes kill_process / raise_signal return NoRunningProcess: the
\* dispatch stops there, the reducer fails, main_impl returns Err, and no abort is
\* recorded and no restart decision taken for that run.
C33_CommandAfterExitFails ==
    /\ [][(CommandAfterExit /\ processed' # processed) =>
            /\ dispatchErr' = "NoRunningProcess" /\ Len(calls') = 1
            /\ rpc' = "failed" /\ mpc' = "done" /\ mainResult' = "Err"
            /\ delivered' = delivered /\ action' = action
            /\ history' = history /\ decisions' = decisions]_vars
    /\ [](dispatchErr = "NoRunningProcess" =>
             (mpc = "done" /\ mainResult = "Err" /\ Len(runLog) < runs))

C33_Witness ==
    /\ dispatchErr = "NoRunningProcess" /\ processed = <<Timeout>>
    /\ ppc = "sendEvent" /\ pmEvent = Aborted /\ mpc = "done" /\ mainResult = "Err"

\* the producers suspended in a send on the event queue
SuspendedSenders ==
    {a \in {"heartbeat", "process_manager", "signal_handler"} :
        \/ a = "heartbeat" /\ hpc = "sendEvent"
        \/ a = "process_manager" /\ ppc = "sendEvent"
        \/ a = "signal_handler" /\ spc = "send"}

\* C34: once the reducer has finished the current run, the events still in the queue and
\* the producers suspended in a send fit into the queue together, so that no producer
\* stays suspended; in particular run_process is never suspended sending Complete /
\* Aborted, after a command was sent, behind a Signalled event the reducer will not take.
C34_NoProducerBlocked ==
    (mpc = "join" /\ rpc = "done") =>
        /\ Len(queue) + Cardinality(SuspendedSenders) <= EVENT_QUEUE_SIZE
        /\ ~(/\ ppc = "sendEvent" /\ delivered = 1
             /\ queue # <<>> /\ queue[1] \in {Signalled(k) : k \in Signal})

\* a Signalled event is in the queue and the reducer of the current run has returned: the
\* event was sent after the reducer's only receive
SignalAfterReducer ==
    /\ rpc = "done" /\ queue # <<>>
    /\ Head(queue) \in {Signalled(k) : k \in Signal}

\* C35: a Signalled event that is queued after the reducer has finished is never
\* dispatched.  While it waits nothing is dispatched; when the run has ended in Abort the
\* child status is Killed and the decision of the Conductor is the one the restart policy
\* gives: on a restart EventHandler::reset empties the queue, the status is Ready again and
\* the next run spawns a new child on an empty queue; otherwise main_impl ends with Ok.
\* The signal is never raised on the child.
C35_SignalAfterAbortDropped ==
    /\ [][SignalAfterReducer =>
            (processed' = processed /\ calls' = calls /\ delivered' = delivered)]_vars
    /\ []((SignalAfterReducer /\ mpc = "decide") =>
             (runResult = "Abort" /\ status = "Killed" /\ Head(queue) \notin Range(processed)))
    /\ [][(SignalAfterReducer /\ mpc = "decide") =>
            LET yes == should_process_restart(history, maxRetries, retryInterval, clock')
            IN /\ decisions' = Append(decisions, yes)
               /\ childSignals' = childSignals /\ child' = child
               /\ IF yes
                  THEN /\ mpc' = "loop" /\ queue' = <<>> /\ status' = "Ready"
                       /\ mainResult' = mainResult
                  ELSE /\ mpc' = "done" /\ mainResult' = "Ok" /\ status' = "Terminated"]_vars
    /\ [][(mpc = "loop" /\ mpc' = "join") =>
            (queue' = <<>> /\ child' = "running" /\ processed' = <<>>)]_vars

\* the first run dispatched Timeout only, the one signal of the execution was queued in
\* that run after the reducer had returned, and the second run is under way with a new
\* child and an empty queue
C35_Witness ==
    /\ mpc = "join" /\ runs = 2 /\ runLog = <<<<Timeout>>>> /\ decisions = <<TRUE>>
    /\ sigCount = 1 /\ spc = "wait" /\ sigPending = <<>> /\ queue = <<>>
    /\ processed = <<>> /\ child = "running" /\ childSignals = {"SIGKILL"}

\* the child of the last run is gone: it exited by itself or was killed and awaited
ChildGone == child \in {"none", "exitedOk", "exitedFail", "killed"}

\* C36: at most one child is alive at any time.  A child is spawned only when the child of
\* the previous run is gone; a run that ends in Abort ends with its child gone (it exited
\* by itself or it was killed and awaited); and after a run whose RaiseSignal branch was
\* taken (the child may still be running) the Conductor never decides on a restart and
\* never spawns again.
C36_OneChildAtATime ==
    /\ [][child' = "running" => (child = "running" \/ (ChildGone /\ runs' = runs + 1))]_vars
    /\ [][(mpc = "loop" /\ mpc' = "join") => (ChildGone /\ child' = "running")]_vars
    /\ []((mpc = "join" /\ ppc = "done" /\ runResult = "Abort") => ChildGone)
    /\ [](mpc \in {"decide", "loop"} => (ChildGone /\ pidSeen = "unasked"))
    /\ [][pidSeen # "unasked" => (runs' = runs /\ mpc' \in {"join", "done"})]_vars
    /\ [][(runResult = "Complete" /\ mpc' # mpc) =>
            (mpc' = "done" /\ (Joined => mainResult' = "Ok"))]_vars

\* the second child is running after the first one exited by itself with a failure
C36_Witness ==
    /\ mpc = "join" /\ runs = 2 /\ child = "running" /\ runLog = <<<<Aborted>>>>
    /\ childSignals = {} /\ decisions = <<TRUE>>

\* C37: kill_process and raise_signal set the status before they take the sender: their
\* result has the status Killed / Terminated whether they return Ok or NoRunningProcess.
\* When the first call of a dispatch fails with NoRunningProcess the status has been
\* changed all the same, the sender is out of its holder, and neither heartbeat.stop() nor
\* signal_handler.close() is called: the stop sender and the signal handle stay in place.
C37_StatusSetBeforeSend ==
    /\ [](/\ kill_process(World).status = "Killed"
          /\ \A k \in Signal : raise_signal(World, k).status = "Terminated"
          /\ agent = "None" =>
                /\ kill_process(World).err = "NoRunningProcess"
                /\ \A k \in Signal : raise_signal(World, k).err = "NoRunningProcess")
    /\ [][(processed' # processed /\ dispatchErr' = "NoRunningProcess") =>
            /\ queue # <<>> /\ status = "Running"
            /\ IF Head(queue) = Timeout
               THEN status' = "Killed" /\ calls' = <<<<"kill_process">>>>
               ELSE /\ Head(queue) \in {Signalled(k) : k \in Signal}
                    /\ status' = "Terminated"
                    /\ calls' = <<<<"raise_signal", Head(queue)[2]>>>>
            /\ agent' = "None"
            /\ sendStop' = sendStop /\ stopSig' = stopSig
            /\ signalHandle' = signalHandle /\ sigClosed' = sigClosed]_vars

\* raise_signal has failed on a dropped receiver: the status is Terminated, the stop
\* sender and the signal handle are still installed
C37_Witness ==
    /\ dispatchErr = "NoRunningProcess" /\ processed = <<Signalled("Quit")>>
    /\ status = "Terminated" /\ calls = <<<<"raise_signal", "Quit">>>>
    /\ agent = "None" /\ signalHandle = "Some" /\ ~sigClosed /\ ~stopSig

\* histories of at most two entries
ShortHistories == UNION {[1..n -> 0..MaxClock] : n \in 0..2}

\* C38: add_process_abort returns Ok with exactly one entry appended (to what prune
\* keeps: the newest MAX-RETRIES - 1 entries) for every MAX-RETRIES >= 1; with
\* MAX-RETRIES = 0 it never returns Ok: prune removes entries until it removes from an
\* empty history (panic); with a negative MAX-RETRIES it returns the conversion error
\* and the history is unchanged.
C38_AddProcessAbortOutcomes ==
    /\ [](\A h \in ShortHistories \cup {history, allAborts} : \A now \in clock..MaxClock :
            \A m \in {maxRetries} \cup (-1..1) :
              LET r == add_process_abort(h, m, now) IN
              /\ m >= 1 => /\ r.res = "Ok"
                           /\ r.history = Append(LastN(h, m - 1), now)
                           /\ Len(r.history) <= m
              /\ m = 0 => r.res = "panic"
              /\ m < 0 => (r.res = "Err" /\ r.history = h))
    /\ [][allAborts' # allAborts =>
            /\ maxRetries >= 1 /\ mainResult' = mainResult
            /\ history' = Append(LastN(history, maxRetries - 1), clock')
            /\ allAborts' = Append(allAborts, clock')]_vars
    /\ [](maxRetries <= 0 => (history = <<>> /\ allAborts = <<>>))
    /\ [][(mpc = "restart" /\ mainResult' # mainResult) =>
            /\ maxRetries <= 0 /\ history' = history
            /\ mainResult' = IF maxRetries = 0 THEN "panic" ELSE "Err"]_vars

\* MAX-RETRIES = 1: the second abort was appended after prune removed the first
C38_Witness ==
    /\ mpc = "restart" /\ maxRetries = 1 /\ Len(allAborts) = 2
    /\ history = <<clock>> /\ mainResult = "none"

\* the tick in which the resolver did not answer in time has failed
ResolverTimeoutTick == hpc = "failed" /\ lookup.res.tag = "RecvTimeout"

\* C39: a tick in which the resolver does not answer within its timeout is not a
\* heartbeat timeout.  The tick fails: Heartbeat::run has failed and main_impl has
\* returned the error.  The probe status is not Timeout, the step enqueues nothing and
\* sends no command or OS signal, and in that run no Timeout event was enqueued or
\* dispatched and kill_process was not called.
C39_ResolverTimeoutIsError ==
    /\ []((lookup.invoked /\ lookup.reply = NoReply) =>
             /\ targetEndpoint = <<>> /\ ResolverTimeoutTick
             /\ mpc = "done" /\ mainResult = "Err")
    /\ [](lookup.res.tag = "RecvTimeout" => (lookup.invoked /\ lookup.reply = NoReply))
    /\ [](ResolverTimeoutTick =>
             /\ hstatus = "Ready"
             /\ Timeout \notin Range(queue) /\ Timeout \notin Range(processed)
             /\ <<"kill_process">> \notin Range(calls))
    /\ [][(lookup'.res.tag = "RecvTimeout" /\ lookup.res.tag # "RecvTimeout") =>
            /\ hpc = "beat" /\ hpc' = "failed"
            /\ queue' = queue /\ hstatus' = hstatus /\ status' = status
            /\ action' = action /\ delivered' = delivered /\ childSignals' = childSignals
            /\ child' = child /\ history' = history /\ decisions' = decisions]_vars

\* the resolver did not answer a tick: the child is still running, no event is queued,
\* no signal was ever sent to a child, and main_impl has returned the error
C39_Witness ==
    /\ ResolverTimeoutTick /\ targetEndpoint = <<>> /\ child = "running"
    /\ mpc = "done" /\ mainResult = "Err" /\ hstatus = "Ready" /\ queue = <<>>
    /\ childSignals = {}

====
